---- MODULE Spec2Model ----
(***************************************************************************)
(* Model of the local relevance-scoring engine of econ-discovery           *)
(* (src/processor.py): the keyword taxonomy, the tokenizer, the keyword    *)
(* matcher, the component scores, the combined relevance score and the     *)
(* ranking of a batch of papers.                                           *)
(*                                                                         *)
(* Python values are modelled as follows.                                  *)
(*   str            a TLA+ string, processed character by character        *)
(*   dict           a function whose DOMAIN is the set of keys present     *)
(*   list           a sequence                                             *)
(*   set            a set; the order in which the interpreter enumerates   *)
(*                  it depends on the hash seed of the process and is the  *)
(*                  state variable hashOrder                               *)
(*   float          an exact rational <<numerator, denominator>>           *)
(***************************************************************************)
EXTENDS Integers, Sequences, FiniteSets, TLC

(***************************************************************************)
(* ACADEMIC KEYWORD TAXONOMY (processor.py, module level dictionaries)     *)
(***************************************************************************)
FIELD_KEYWORDS ==
  ("Microeconomics" :>
     {"microeconomic", "consumer", "producer", "demand", "supply",
      "equilibrium", "utility", "preference", "choice", "optimization",
      "market", "price", "elasticity", "welfare", "surplus", "efficiency",
      "allocation", "mechanism"}) @@
  ("Macroeconomics" :>
     {"macroeconomic", "gdp", "growth", "inflation", "unemployment",
      "recession", "business cycle", "aggregate", "monetary", "fiscal",
      "central bank", "interest rate", "output", "consumption", "investment",
      "savings"}) @@
  ("Econometrics" :>
     {"econometric", "estimation", "regression", "identification",
      "inference", "estimator", "consistent", "unbiased",
      "heteroskedasticity", "autocorrelation", "specification",
      "model selection", "bootstrap", "asymptotic"}) @@
  ("Labor Economics" :>
     {"labor", "wage", "employment", "unemployment", "worker", "job",
      "human capital", "education", "training", "skill", "occupation",
      "minimum wage", "union", "collective bargaining", "discrimination",
      "earnings", "income", "mobility", "search", "matching"}) @@
  ("Public Economics" :>
     {"public", "tax", "taxation", "government", "fiscal", "spending",
      "redistribution", "welfare", "social insurance", "public good",
      "externality", "regulation", "public finance", "budget", "deficit"}) @@
  ("International Economics" :>
     {"international", "trade", "export", "import", "tariff",
      "globalization", "exchange rate", "currency", "capital flow",
      "foreign direct investment", "comparative advantage", "trade policy",
      "protectionism", "wto"}) @@
  ("Development Economics" :>
     {"development", "poverty", "developing country", "aid", "microfinance",
      "rural", "agriculture", "infrastructure", "institution", "corruption",
      "growth", "inequality", "health", "education", "nutrition"}) @@
  ("Financial Economics" :>
     {"financial", "finance", "asset", "stock", "bond", "return", "risk",
      "portfolio", "investment", "banking", "credit", "loan", "mortgage",
      "interest rate", "yield", "market", "liquidity", "capital"}) @@
  ("Industrial Organization" :>
     {"industrial organization", "firm", "market structure", "competition",
      "monopoly", "oligopoly", "antitrust", "merger", "entry", "exit",
      "pricing", "product differentiation", "vertical integration"}) @@
  ("Behavioral Economics" :>
     {"behavioral", "psychology", "bias", "heuristic", "bounded rationality",
      "prospect theory", "loss aversion", "time preference", "present bias",
      "nudge", "framing", "anchoring", "overconfidence", "social preference"}) @@
  ("Health Economics" :>
     {"health", "healthcare", "hospital", "physician", "insurance",
      "medicare", "medicaid", "pharmaceutical", "drug", "mortality",
      "morbidity", "disease", "treatment", "patient", "medical"}) @@
  ("Environmental Economics" :>
     {"environmental", "climate", "carbon", "emission", "pollution",
      "energy", "renewable", "sustainability", "conservation",
      "natural resource", "cap and trade", "carbon tax", "externality",
      "green"}) @@
  ("Urban Economics" :>
     {"urban", "city", "housing", "rent", "real estate", "land", "zoning",
      "agglomeration", "spatial", "commute", "transportation",
      "neighborhood", "gentrification", "segregation", "metropolitan"}) @@
  ("Economic History" :>
     {"history", "historical", "long run", "persistence", "colonial",
      "industrial revolution", "great depression", "institution", "slavery",
      "war", "conflict", "demographic transition"}) @@
  ("Political Economy" :>
     {"political economy", "institution", "democracy", "autocracy", "regime",
      "voting", "election", "politician", "lobbying", "corruption",
      "redistribution", "inequality", "conflict", "state capacity"}) @@
  ("Comparative Politics" :>
     {"comparative", "cross-country", "regime", "democracy", "autocracy",
      "institution", "parliament", "coalition", "party", "electoral system",
      "federalism", "decentralization", "state building"}) @@
  ("International Relations" :>
     {"international relations", "conflict", "war", "peace", "diplomacy",
      "alliance", "treaty", "sanction", "nuclear", "security", "terrorism",
      "cooperation", "international organization", "sovereignty"}) @@
  ("American Politics" :>
     {"american politics", "congress", "senate", "house", "president",
      "supreme court", "partisan", "republican", "democrat", "polarization",
      "lobbying", "campaign", "primary", "electoral college"}) @@
  ("Political Theory" :>
     {"political theory", "justice", "liberty", "equality", "rights",
      "democracy", "legitimacy", "sovereignty", "social contract",
      "deliberation", "normative", "ideology"}) @@
  ("Public Policy" :>
     {"public policy", "policy evaluation", "implementation", "regulation",
      "reform", "government program", "effectiveness", "cost-benefit",
      "stakeholder", "agenda setting"}) @@
  ("Political Methodology" :>
     {"methodology", "causal inference", "identification", "experiment",
      "survey", "measurement", "text analysis", "machine learning",
      "bayesian", "formal model"}) @@
  ("Security Studies" :>
     {"security", "defense", "military", "war", "conflict", "terrorism",
      "nuclear", "cyber", "intelligence", "strategy", "deterrence"}) @@
  ("Electoral Politics" :>
     {"election", "voting", "voter", "turnout", "campaign", "candidate",
      "party", "primary", "polling", "electoral", "ballot", "swing"})

INTEREST_KEYWORDS ==
  ("Causal Inference" :>
     {"causal", "causality", "identification", "endogeneity", "exogenous",
      "treatment effect", "counterfactual", "selection", "confounding",
      "instrumental", "discontinuity", "difference-in-differences"}) @@
  ("Machine Learning/AI" :>
     {"machine learning", "artificial intelligence", "neural network",
      "deep learning", "prediction", "classification", "algorithm",
      "random forest", "lasso", "regularization", "cross-validation"}) @@
  ("Field Experiments (RCTs)" :>
     {"randomized", "rct", "experiment", "random assignment", "treatment",
      "control group", "field experiment", "randomization", "intent to treat"}) @@
  ("Natural Experiments" :>
     {"natural experiment", "quasi-experiment", "exogenous shock",
      "discontinuity", "regression discontinuity", "instrumental variable",
      "difference-in-differences", "event study"}) @@
  ("Structural Estimation" :>
     {"structural", "estimation", "model", "parameter", "simulation",
      "counterfactual", "welfare", "equilibrium", "dynamic"}) @@
  ("Theory/Mechanism Design" :>
     {"theory", "mechanism design", "game theory", "equilibrium",
      "incentive", "contract", "auction", "matching", "optimal", "strategic"}) @@
  ("Survey Experiments" :>
     {"survey experiment", "conjoint", "vignette", "factorial", "survey",
      "respondent", "treatment", "experimental"}) @@
  ("Policy Evaluation" :>
     {"policy evaluation", "program evaluation", "impact", "effectiveness",
      "cost-benefit", "welfare", "reform", "implementation"}) @@
  ("Inequality & Redistribution" :>
     {"inequality", "redistribution", "income distribution", "wealth",
      "gini", "top income", "bottom", "percentile", "mobility"}) @@
  ("Climate & Energy" :>
     {"climate", "carbon", "emission", "energy", "renewable", "fossil fuel",
      "temperature", "warming", "environmental", "green", "solar", "wind"}) @@
  ("Education Policy" :>
     {"education", "school", "student", "teacher", "test score",
      "achievement", "college", "university", "dropout", "graduation",
      "curriculum"}) @@
  ("Housing Markets" :>
     {"housing", "house price", "rent", "mortgage", "homeowner",
      "real estate", "foreclosure", "affordability", "zoning", "construction"}) @@
  ("Trade & Globalization" :>
     {"trade", "globalization", "export", "import", "tariff", "outsourcing",
      "supply chain", "multinational", "foreign", "comparative advantage"}) @@
  ("Monetary Policy" :>
     {"monetary policy", "central bank", "federal reserve", "interest rate",
      "inflation", "quantitative easing", "money supply", "liquidity"}) @@
  ("Fiscal Policy" :>
     {"fiscal policy", "government spending", "tax", "budget", "deficit",
      "debt", "stimulus", "austerity", "multiplier"}) @@
  ("Innovation & Technology" :>
     {"innovation", "technology", "patent", "r&d", "research", "startup",
      "entrepreneur", "productivity", "automation", "digital"}) @@
  ("Gender & Discrimination" :>
     {"gender", "discrimination", "wage gap", "women", "female", "bias",
      "diversity", "race", "racial", "minority", "affirmative action"}) @@
  ("Crime & Justice" :>
     {"crime", "criminal", "police", "prison", "incarceration", "recidivism",
      "sentencing", "justice", "law enforcement", "violence"}) @@
  ("Health & Healthcare" :>
     {"health", "healthcare", "hospital", "insurance", "mortality",
      "disease", "treatment", "physician", "patient", "medical"}) @@
  ("Immigration" :>
     {"immigration", "immigrant", "migration", "refugee", "border", "visa",
      "asylum", "deportation", "citizenship", "naturalization"}) @@
  ("Democratic Institutions" :>
     {"democracy", "democratic", "institution", "constitution",
      "rule of law", "checks and balances", "separation of powers",
      "accountability"}) @@
  ("Voting & Elections" :>
     {"voting", "election", "voter", "turnout", "ballot", "electoral",
      "campaign", "candidate", "polling", "swing voter"}) @@
  ("Conflict & Security" :>
     {"conflict", "war", "violence", "peace", "security", "military",
      "terrorism", "civil war", "interstate", "defense"}) @@
  ("Media & Information" :>
     {"media", "news", "information", "social media", "misinformation",
      "propaganda", "journalism", "press", "fake news", "polarization"}) @@
  ("Social Mobility" :>
     {"mobility", "intergenerational", "upward mobility", "opportunity",
      "socioeconomic", "class", "income mobility", "persistence"}) @@
  ("Poverty & Welfare" :>
     {"poverty", "welfare", "social assistance", "food stamps", "snap",
      "transfer", "safety net", "poor", "low income", "benefits"}) @@
  ("Regulation" :>
     {"regulation", "deregulation", "regulatory", "compliance", "rule",
      "standard", "enforcement", "agency", "policy"})

METHOD_KEYWORDS ==
  ("Difference-in-Differences" :>
     {"difference-in-differences", "diff-in-diff", "did", "parallel trends",
      "event study", "two-way fixed effects", "staggered", "treatment timing"}) @@
  ("Regression Discontinuity" :>
     {"regression discontinuity", "rdd", "discontinuity", "cutoff",
      "threshold", "running variable", "bandwidth", "local linear",
      "fuzzy rd", "sharp rd"}) @@
  ("Instrumental Variables" :>
     {"instrumental variable", "iv", "instrument", "two-stage", "2sls",
      "exclusion restriction", "first stage", "weak instrument"}) @@
  ("Randomized Controlled Trials" :>
     {"randomized", "rct", "experiment", "random assignment",
      "treatment group", "control group", "randomization", "experimental",
      "intent to treat"}) @@
  ("Structural Models" :>
     {"structural model", "structural estimation", "equilibrium model",
      "dynamic model", "simulation", "counterfactual simulation"}) @@
  ("Theoretical Models" :>
     {"theoretical model", "theory", "formal model", "game theory",
      "equilibrium", "mechanism", "optimal", "analytical"}) @@
  ("Machine Learning Methods" :>
     {"machine learning", "lasso", "random forest", "neural network",
      "causal forest", "double machine learning", "prediction",
      "cross-validation"}) @@
  ("Survey/Experimental Data" :>
     {"survey", "survey data", "experimental data", "questionnaire",
      "respondent", "sample", "response rate"}) @@
  ("Administrative Data" :>
     {"administrative data", "register data", "tax records", "census",
      "linked data", "population data", "registry"}) @@
  ("Time Series Analysis" :>
     {"time series", "var", "arima", "cointegration", "granger causality",
      "impulse response", "forecast", "autocorrelation"}) @@
  ("Panel Data Methods" :>
     {"panel data", "fixed effects", "random effects", "within estimator",
      "longitudinal", "repeated cross-section", "hausman test"}) @@
  ("Text Analysis/NLP" :>
     {"text analysis", "nlp", "natural language", "topic model", "sentiment",
      "word embedding", "text classification", "corpus"}) @@
  ("Network Analysis" :>
     {"network", "graph", "centrality", "clustering", "social network",
      "peer effects", "spillover", "contagion"}) @@
  ("Bayesian Methods" :>
     {"bayesian", "prior", "posterior", "mcmc", "credible interval",
      "hierarchical", "gibbs sampling"}) @@
  ("Qualitative Methods" :>
     {"qualitative", "interview", "case study", "ethnography", "discourse",
      "content analysis", "narrative", "interpretive"}) @@
  ("Case Studies" :>
     {"case study", "single case", "comparative case", "process tracing",
      "within-case", "cross-case"}) @@
  ("Process Tracing" :>
     {"process tracing", "causal mechanism", "within-case", "diagnostic",
      "smoking gun", "hoop test"})

REGION_KEYWORDS ==
  ("Global/Comparative" :>
     {"global", "cross-country", "international", "comparative", "world"}) @@
  ("United States" :>
     {"united states", "us", "usa", "american", "federal"}) @@
  ("European Union" :>
     {"european union", "eu", "europe", "european", "eurozone"}) @@
  ("United Kingdom" :>
     {"united kingdom", "uk", "british", "england", "britain"}) @@
  ("China" :>
     {"china", "chinese", "beijing", "shanghai"}) @@
  ("India" :>
     {"india", "indian", "delhi", "mumbai"}) @@
  ("Latin America" :>
     {"latin america", "brazil", "mexico", "argentina", "chile", "colombia"}) @@
  ("Sub-Saharan Africa" :>
     {"africa", "african", "nigeria", "kenya", "south africa", "ethiopia"}) @@
  ("Middle East & North Africa" :>
     {"middle east", "mena", "arab", "egypt", "iran", "turkey"}) @@
  ("Southeast Asia" :>
     {"southeast asia", "indonesia", "vietnam", "thailand", "philippines"}) @@
  ("Global South" :>
     {"developing", "global south", "emerging", "low income", "third world"}) @@
  ("OECD Countries" :>
     {"oecd", "developed", "advanced economy", "high income"}) @@
  ("Emerging Markets" :>
     {"emerging market", "brics", "developing economy"})

STOPWORDS ==
  {"a", "an", "the", "and", "or", "but", "if", "then", "else", "when", "at",
   "by", "for", "with", "about", "against", "between", "into", "through",
   "during", "before", "after", "above", "below", "to", "from", "up", "down",
   "in", "out", "on", "off", "over", "under", "again", "further", "once",
   "here", "there", "all", "each", "few", "more", "most", "other", "some",
   "such", "no", "nor", "not", "only", "own", "same", "so", "than", "too",
   "very", "can", "will", "just", "should", "now", "also", "well", "even",
   "back", "much", "how", "where", "which", "while", "who", "whom", "why",
   "what", "this", "that", "these", "those", "am", "is", "are", "was",
   "were", "be", "been", "being", "have", "has", "had", "having", "do",
   "does", "did", "doing", "would", "could", "might", "must", "shall", "i",
   "me", "my", "myself", "we", "our", "ours", "ourselves", "you", "your",
   "yours", "yourself", "he", "him", "his", "himself", "she", "her", "hers",
   "herself", "it", "its", "itself", "they", "them", "their", "theirs",
   "themselves", "paper", "study", "research", "analysis", "result", "find",
   "show", "suggest", "examine", "investigate", "use", "using", "based",
   "effect", "impact", "evidence", "data", "method"}

(***************************************************************************)
(* Python built-ins used by the engine                                     *)
(***************************************************************************)

\* Body(v), the value v computed once and bound to Body's parameter: the
\* local variable of the Python code that holds an intermediate result
With(v, Body(_)) == CHOOSE r \in {Body(x) : x \in {v}} : TRUE

\* dict.get(key, default)
dict_get(d, key, default) == IF key \in DOMAIN d THEN d[key] ELSE default

Range(s) == {s[i] : i \in 1..Len(s)}

UpperChars == "ABCDEFGHIJKLMNOPQRSTUVWXYZ"
LowerChars == "abcdefghijklmnopqrstuvwxyz"
\* the characters the regular expression class \w accepts (after lower())
WordChars == {"a", "b", "c", "d", "e", "f", "g", "h", "i", "j", "k", "l", "m",
              "n", "o", "p", "q", "r", "s", "t", "u", "v", "w", "x", "y", "z",
              "0", "1", "2", "3", "4", "5", "6", "7", "8", "9", "_"}
\* the characters the class \s accepts, which are also where str.split() cuts
SpaceChars == {" ", "\t", "\n"}

Char(s, i) == SubSeq(s, i, i)

RECURSIVE IndexOf(_, _, _)
IndexOf(c, s, i) ==
  IF i > Len(s) THEN 0
  ELSE IF Char(s, i) = c THEN i ELSE IndexOf(c, s, i + 1)

LowerChar(c) ==
  LET i == IndexOf(c, UpperChars, 1)
  IN  IF i = 0 THEN c ELSE Char(LowerChars, i)

\* str.lower()
RECURSIVE str_lower(_)
str_lower(s) ==
  IF s = "" THEN ""
  ELSE IF Len(s) = 1 THEN LowerChar(s)
  ELSE str_lower(SubSeq(s, 1, Len(s) \div 2))
         \o str_lower(SubSeq(s, Len(s) \div 2 + 1, Len(s)))

\* the substitution with the pattern [^\w\s]: a hyphen becomes a space too
RECURSIVE re_sub_punct_hyphen(_)
re_sub_punct_hyphen(s) ==
  IF s = "" THEN ""
  ELSE IF Len(s) = 1
       THEN (IF s \in WordChars \cup SpaceChars THEN s ELSE " ")
  ELSE re_sub_punct_hyphen(SubSeq(s, 1, Len(s) \div 2))
         \o re_sub_punct_hyphen(SubSeq(s, Len(s) \div 2 + 1, Len(s)))

\* re.sub(r'[^\w\s-]', ' ', text): every character that is neither a word
\* character, nor white space, nor a hyphen becomes a space
RECURSIVE re_sub_punct(_)
re_sub_punct(s) ==
  IF s = "" THEN ""
  ELSE IF Len(s) = 1
       THEN (IF s \in WordChars \cup SpaceChars \cup {"-"} THEN s ELSE " ")
  ELSE re_sub_punct(SubSeq(s, 1, Len(s) \div 2))
         \o re_sub_punct(SubSeq(s, Len(s) \div 2 + 1, Len(s)))

\* the first position of s whose character is white space (sp) or is not
\* (~sp), Len(s) + 1 when there is none
NextPos(s, sp) ==
  CHOOSE k \in 1..(Len(s) + 1) :
    /\ k = Len(s) + 1 \/ (Char(s, k) \in SpaceChars) = sp
    /\ \A j \in 1..(k - 1) : (Char(s, j) \in SpaceChars) # sp

\* str.split(): cut at runs of white space, no empty pieces; cur is the
\* piece being read and acc the pieces read
RECURSIVE str_split(_, _, _)
str_split(s, cur, acc) ==
  IF s = "" THEN (IF cur = "" THEN acc ELSE Append(acc, cur))
  ELSE IF Head(s) \in SpaceChars
       THEN str_split(SubSeq(s, NextPos(s, FALSE), Len(s)), "",
                      IF cur = "" THEN acc ELSE Append(acc, cur))
       ELSE With(NextPos(s, TRUE), LAMBDA k :
              str_split(SubSeq(s, k, Len(s)), cur \o SubSeq(s, 1, k - 1), acc))

\* sep.join(list)
RECURSIVE str_join(_, _)
str_join(sep, l) ==
  IF l = <<>> THEN ""
  ELSE IF Len(l) = 1 THEN l[1]
  ELSE l[1] \o sep \o str_join(sep, Tail(l))

\* needle in hay (substring test on strings)
str_contains(hay, needle) ==
  \/ needle = ""
  \/ \E i \in 1..(Len(hay) - Len(needle) + 1) :
        SubSeq(hay, i, i + Len(needle) - 1) = needle

(***************************************************************************)
(* Floating point numbers as exact rationals <<n, d>>, d > 0, in lowest    *)
(* terms.                                                                  *)
(***************************************************************************)
RECURSIVE GCD(_, _)
GCD(a, b) == IF b = 0 THEN a ELSE GCD(b, a % b)

Abs(n) == IF n < 0 THEN -n ELSE n

Rat(n, d) ==
  LET g == GCD(Abs(n), d)
  IN  IF n = 0 THEN <<0, 1>> ELSE <<n \div g, d \div g>>

Zero == <<0, 1>>
One == <<1, 1>>

RAdd(a, b) == Rat(a[1] * b[2] + b[1] * a[2], a[2] * b[2])
RMul(a, b) == Rat(a[1] * b[1], a[2] * b[2])
RDiv(a, b) == Rat(a[1] * b[2], a[2] * b[1])
RLeq(a, b) == a[1] * b[2] <= b[1] * a[2]
RLess(a, b) == a[1] * b[2] < b[1] * a[2]
RMin(a, b) == IF RLeq(a, b) THEN a ELSE b
RMax(a, b) == IF RLeq(a, b) THEN b ELSE a

RECURSIVE Pow10(_)
Pow10(k) == IF k = 0 THEN 1 ELSE 10 * Pow10(k - 1)

\* x * 10^ndigits lies exactly half way between two integers
IsTie(x, ndigits) == (2 * x[1] * Pow10(ndigits)) % (2 * x[2]) = x[2]

\* round(x, ndigits) for x >= 0: the nearest multiple of 10^-ndigits.  The
\* program holds x as a binary double, so when x is an exact decimal half in
\* the rationals the double lies on it or an ulp to either side, and the
\* result is one of the two neighbours: the upper one iff x is in ties_up.
round(x, ndigits, ties_up) ==
  LET num == x[1] * Pow10(ndigits)
      q == num \div x[2]
      r == num % x[2]
      up == \/ 2 * r > x[2]
            \/ 2 * r = x[2] /\ x \in ties_up
  IN  Rat(IF up THEN q + 1 ELSE q, Pow10(ndigits))

(***************************************************************************)
(* TEXT PROCESSING                                                         *)
(***************************************************************************)
\* a tokenize that filters the stopwords only and keeps the short tokens
tokenize_keep_short(text) ==
  IF text = "" THEN <<>>
  ELSE LET lowered == str_lower(text)
           cleaned == re_sub_punct(lowered)
           tokens == str_split(cleaned, "", <<>>)
       IN  SelectSeq(tokens, LAMBDA t : t \notin STOPWORDS)

tokenize(text) ==
  IF text = "" THEN <<>>
  ELSE LET lowered == str_lower(text)
           cleaned == re_sub_punct(lowered)
           tokens == str_split(cleaned, "", <<>>)
       IN  SelectSeq(tokens, LAMBDA t : t \notin STOPWORDS /\ Len(t) > 2)

(***************************************************************************)
(* Enumeration of Python sets.  h is the enumeration order of the running  *)
(* process: h.tok[S] is the order in which the token set S is enumerated,  *)
(* h.kw the relative order of the taxonomy keywords that occur in h.kw     *)
(* (the keywords that can match a paper of the state; the position of the  *)
(* other keywords of a cluster has no effect on any result, they are       *)
(* enumerated after those).                                                *)
(***************************************************************************)
RECURSIVE SetToSeq(_)
SetToSeq(S) ==
  IF S = {} THEN <<>>
  ELSE LET x == CHOOSE y \in S : TRUE IN <<x>> \o SetToSeq(S \ {x})

\* for t in text_tokens
TokenIter(text_tokens, h) == h.tok[text_tokens]

\* for keyword in keyword_set
KeywordIter(keyword_set, h) ==
  SelectSeq(h.kw, LAMBDA k : k \in keyword_set)
    \o SetToSeq(keyword_set \ Range(h.kw))

(***************************************************************************)
(* MATCHING ENGINE (class SemanticMatcher)                                 *)
(***************************************************************************)
FIELD_WEIGHT == <<30, 100>>
INTEREST_WEIGHT == <<35, 100>>
METHOD_WEIGHT == <<25, 100>>
REGION_WEIGHT == <<10, 100>>
AUTHOR_BONUS == <<1, 2>>
\* a bonus of 0.5 for the first tier
TIER_BONUS_half ==
  (1 :> <<1, 2>>) @@ (2 :> <<3, 20>>) @@ (3 :> <<1, 20>>) @@ (4 :> <<0, 1>>)

TIER_BONUS == (1 :> <<3, 10>>) @@ (2 :> <<3, 20>>) @@ (3 :> <<1, 20>>)
                @@ (4 :> <<0, 1>>)

\* an overlap score with diminishing returns: 0.6, 0.8 and 1.0 for one, two
\* and three or more matches
_keyword_overlap_score_diminishing(text_tokens, keyword_set, h) ==
  IF keyword_set = {} THEN [score |-> Zero, matches |-> <<>>]
  ELSE
    LET IsMatch(keyword, text_str) ==
          IF str_contains(keyword, " ")
          THEN str_contains(text_str, keyword)
          ELSE keyword \in text_tokens
        Matches(text_str) ==
          SelectSeq(KeywordIter(keyword_set, h),
                    LAMBDA keyword : IsMatch(keyword, text_str))
        Scored(matches) ==
          [score |-> CASE Len(matches) = 0 -> Zero
                       [] Len(matches) = 1 -> <<3, 5>>
                       [] Len(matches) = 2 -> <<4, 5>>
                       [] OTHER -> One,
           matches |-> matches]
    IN  With(With(str_join(" ", TokenIter(text_tokens, h)), Matches), Scored)

\* Calculate overlap between text tokens and keyword set: (score, matches)
_keyword_overlap_score(text_tokens, keyword_set, h) ==
  IF keyword_set = {} THEN [score |-> Zero, matches |-> <<>>]
  ELSE
    LET IsMatch(keyword, text_str) ==
          IF str_contains(keyword, " ")
          THEN str_contains(text_str, keyword)
          ELSE keyword \in text_tokens
        Matches(text_str) ==
          SelectSeq(KeywordIter(keyword_set, h),
                    LAMBDA keyword : IsMatch(keyword, text_str))
        \* max(3, len(keyword_set) * 0.2)
        denom == RMax(<<3, 1>>,
                      RMul(<<Cardinality(keyword_set), 1>>, <<1, 5>>))
        Scored(matches) ==
          IF matches = <<>> THEN [score |-> Zero, matches |-> <<>>]
          ELSE [score |-> RMin(One, RDiv(<<Len(matches), 1>>, denom)),
                matches |-> matches]
    IN  With(With(str_join(" ", TokenIter(text_tokens, h)), Matches), Scored)

\* a field score that falls back on the keywords of every field when the
\* field of the profile is not in the taxonomy
_compute_field_score_fallback(profile, paper_tokens, h) ==
  LET all_keywords == UNION {FIELD_KEYWORDS[f] : f \in DOMAIN FIELD_KEYWORDS}
      field_keywords ==
        dict_get(FIELD_KEYWORDS, profile.primary_field, all_keywords)
  IN  _keyword_overlap_score(paper_tokens, field_keywords, h)

_compute_field_score(profile, paper_tokens, h) ==
  LET field_keywords == dict_get(FIELD_KEYWORDS, profile.primary_field, {})
  IN  _keyword_overlap_score(paper_tokens, field_keywords, h)

\* the loop with the score of a label weighted by its position, later
\* positions more
RECURSIVE accumulate_matches_weighted(_, _, _, _)
accumulate_matches_weighted(labels, table, paper_tokens, h) ==
  IF labels = <<>> THEN [total_score |-> Zero, all_matches |-> <<>>]
  ELSE
    LET n == Len(labels)
        keywords == dict_get(table, labels[n], {})
        Add(before, r) ==
          IF r.matches # <<>>
          THEN [total_score |->
                  RAdd(before.total_score, RMul(r.score, <<n, 1>>)),
                all_matches |-> Append(before.all_matches, labels[n])]
          ELSE before
        Step(before) ==
          With(_keyword_overlap_score(paper_tokens, keywords, h),
               LAMBDA r : Add(before, r))
    IN  With(accumulate_matches_weighted(SubSeq(labels, 1, n - 1), table,
                                         paper_tokens, h), Step)

\* the loop with the score of the label at 0-indexed position i weighted by
\* max(0.5, 1 - 0.08 i)
RECURSIVE accumulate_matches_decayed(_, _, _, _)
accumulate_matches_decayed(labels, table, paper_tokens, h) ==
  IF labels = <<>> THEN [total_score |-> Zero, all_matches |-> <<>>]
  ELSE
    LET n == Len(labels)
        keywords == dict_get(table, labels[n], {})
        decay == RMax(<<1, 2>>, Rat(100 - 8 * (n - 1), 100))
        Add(before, r) ==
          IF r.matches # <<>>
          THEN [total_score |-> RAdd(before.total_score, RMul(r.score, decay)),
                all_matches |-> Append(before.all_matches, labels[n])]
          ELSE before
        Step(before) ==
          With(_keyword_overlap_score(paper_tokens, keywords, h),
               LAMBDA r : Add(before, r))
    IN  With(accumulate_matches_decayed(SubSeq(labels, 1, n - 1), table,
                                        paper_tokens, h), Step)

\* the loop shared by the interest and the method score: the labels with at
\* least one matched keyword, in profile order, and the sum of their scores
RECURSIVE accumulate_matches(_, _, _, _)
accumulate_matches(labels, table, paper_tokens, h) ==
  IF labels = <<>> THEN [total_score |-> Zero, all_matches |-> <<>>]
  ELSE
    LET n == Len(labels)
        keywords == dict_get(table, labels[n], {})
        Add(before, r) ==
          IF r.matches # <<>>
          THEN [total_score |-> RAdd(before.total_score, r.score),
                all_matches |-> Append(before.all_matches, labels[n])]
          ELSE before
        Step(before) ==
          With(_keyword_overlap_score(paper_tokens, keywords, h),
               LAMBDA r : Add(before, r))
    IN  With(accumulate_matches(SubSeq(labels, 1, n - 1), table,
                                paper_tokens, h), Step)

\* the interest score without the cap at 1.0
_compute_interest_scores_uncapped(profile, paper_tokens, h) ==
  LET Result(acc) ==
        IF profile.secondary_interests = <<>>
        THEN [score |-> Zero, matches |-> <<>>]
        ELSE LET avg_score == RDiv(acc.total_score,
                                   <<Len(profile.secondary_interests), 1>>)
             IN  [score |-> RMul(avg_score, <<3, 2>>),
                  matches |-> acc.all_matches]
  IN  With(accumulate_matches(profile.secondary_interests, INTEREST_KEYWORDS,
                              paper_tokens, h), Result)

_compute_interest_scores(profile, paper_tokens, h) ==
  LET Result(acc) ==
        IF profile.secondary_interests = <<>>
        THEN [score |-> Zero, matches |-> <<>>]
        ELSE LET avg_score == RDiv(acc.total_score,
                                   <<Len(profile.secondary_interests), 1>>)
             IN  [score |-> RMin(One, RMul(avg_score, <<3, 2>>)),
                  matches |-> acc.all_matches]
  IN  With(accumulate_matches(profile.secondary_interests, INTEREST_KEYWORDS,
                              paper_tokens, h), Result)

\* a method score scaled by the methodological lean of the profile
_compute_method_scores_lean(profile, paper_tokens, h) ==
  LET Result(acc) ==
        IF profile.preferred_methodology = <<>>
        THEN [score |-> Zero, matches |-> <<>>]
        ELSE LET avg_score == RDiv(acc.total_score,
                                   <<Len(profile.preferred_methodology), 1>>)
             IN  [score |-> RMin(One, RMul(RMul(avg_score, <<3, 2>>),
                                           profile.methodological_lean)),
                  matches |-> acc.all_matches]
  IN  With(accumulate_matches(profile.preferred_methodology, METHOD_KEYWORDS,
                              paper_tokens, h), Result)

_compute_method_scores(profile, paper_tokens, h) ==
  LET Result(acc) ==
        IF profile.preferred_methodology = <<>>
        THEN [score |-> Zero, matches |-> <<>>]
        ELSE LET avg_score == RDiv(acc.total_score,
                                   <<Len(profile.preferred_methodology), 1>>)
             IN  [score |-> RMin(One, RMul(avg_score, <<3, 2>>)),
                  matches |-> acc.all_matches]
  IN  With(accumulate_matches(profile.preferred_methodology, METHOD_KEYWORDS,
                              paper_tokens, h), Result)

_compute_region_score(profile, paper_tokens, h) ==
  LET region_keywords == dict_get(REGION_KEYWORDS, profile.regional_focus, {})
  IN  _keyword_overlap_score(paper_tokens, region_keywords, h).score

\* an author check whose early return is True
_check_author_match_eager(profile, paper_authors) ==
  IF profile.seed_authors = <<>> THEN TRUE
  ELSE LET paper_authors_lower == {str_lower(a) : a \in Range(paper_authors)}
           seed_authors_lower ==
             {str_lower(a) : a \in Range(profile.seed_authors)}
       IN  \E seed \in seed_authors_lower : \E author \in paper_authors_lower :
              str_contains(author, seed) \/ str_contains(seed, author)

\* an author check that compares the names as they are written
_check_author_match_cased(profile, paper_authors) ==
  IF profile.seed_authors = <<>> THEN FALSE
  ELSE \E seed \in Range(profile.seed_authors) :
         \E author \in Range(paper_authors) :
           str_contains(author, seed) \/ str_contains(seed, author)

_check_author_match(profile, paper_authors) ==
  IF profile.seed_authors = <<>> THEN FALSE
  ELSE LET paper_authors_lower == {str_lower(a) : a \in Range(paper_authors)}
           seed_authors_lower ==
             {str_lower(a) : a \in Range(profile.seed_authors)}
       IN  \E seed \in seed_authors_lower : \E author \in paper_authors_lower :
              str_contains(author, seed) \/ str_contains(seed, author)

\* the text match_paper tokenizes: title, abstract and the concept names
full_text(paper) ==
  LET title == dict_get(paper, "title", "")
      abstract == dict_get(paper, "abstract", "")
      concepts == dict_get(paper, "concepts", <<>>)
      concept_text ==
        str_join(" ", [i \in 1..Len(concepts) |->
                         dict_get(concepts[i], "name", "")])
  IN  (title \o " " \o abstract) \o " " \o concept_text

\* the scaling without the clamp
normalize_unclamped(base_score) == RMul(base_score, <<10, 1>>)

\* the line through (x0, y0) and (x1, y1), at x
Interpolate(x, x0, x1, y0, y1) ==
  RAdd(y0, RDiv(RMul(RAdd(x, <<-x0[1], x0[2]>>), RAdd(y1, <<-y0[1], y0[2]>>)),
                RAdd(x1, <<-x0[1], x0[2]>>)))

\* a piecewise-linear calibration with the knots 0.10 -> 3.5, 0.18 -> 5.0,
\* 0.30 -> 6.5, 0.45 -> 8.0 and 1.0 -> 10.0, clamped to [1.0, 10.0]
normalize_calibrated(base_score) ==
  LET curve ==
        IF RLess(base_score, <<1, 10>>)
        THEN Interpolate(base_score, Zero, <<1, 10>>, One, <<7, 2>>)
        ELSE IF RLess(base_score, <<9, 50>>)
        THEN Interpolate(base_score, <<1, 10>>, <<9, 50>>, <<7, 2>>, <<5, 1>>)
        ELSE IF RLess(base_score, <<3, 10>>)
        THEN Interpolate(base_score, <<9, 50>>, <<3, 10>>, <<5, 1>>, <<13, 2>>)
        ELSE IF RLess(base_score, <<9, 20>>)
        THEN Interpolate(base_score, <<3, 10>>, <<9, 20>>, <<13, 2>>, <<8, 1>>)
        ELSE Interpolate(base_score, <<9, 20>>, One, <<8, 1>>, <<10, 1>>)
  IN  RMin(<<10, 1>>, RMax(<<1, 1>>, curve))

\* Normalize to 1-10 scale: min(10.0, max(1.0, base_score * 10))
normalize(base_score) ==
  RMin(<<10, 1>>, RMax(<<1, 1>>, RMul(base_score, <<10, 1>>)))

\* match_paper up to the rounding of the scores
unrounded_match(profile, paper, h) ==
  LET author_match ==
        _check_author_match(profile, dict_get(paper, "authors", <<>>))
      journal_tier == dict_get(paper, "journal_tier", 4)
      Combine(field, interest, method, region_score) ==
        LET weighted ==
              RAdd(RAdd(RAdd(RMul(FIELD_WEIGHT, field.score),
                             RMul(INTEREST_WEIGHT, interest.score)),
                        RMul(METHOD_WEIGHT, method.score)),
                   RMul(REGION_WEIGHT, region_score))
            with_author ==
              IF author_match THEN RAdd(weighted, AUTHOR_BONUS) ELSE weighted
            base_score ==
              RAdd(with_author, dict_get(TIER_BONUS, journal_tier, Zero))
        IN  [relevance_score |-> normalize(base_score),
             field_score |-> field.score,
             interest_score |-> interest.score,
             method_score |-> method.score,
             region_score |-> region_score,
             author_match |-> author_match,
             matched_interests |-> interest.matches,
             matched_methods |-> method.matches,
             \* field_matches[:5]
             matched_keywords |-> SubSeq(field.matches, 1,
                                         IF Len(field.matches) < 5
                                         THEN Len(field.matches) ELSE 5)]
      Score(token_set) ==
        With(_compute_field_score(profile, token_set, h), LAMBDA field :
        With(_compute_interest_scores(profile, token_set, h), LAMBDA interest :
        With(_compute_method_scores(profile, token_set, h), LAMBDA method :
        With(_compute_region_score(profile, token_set, h), LAMBDA region_score :
          Combine(field, interest, method, region_score)))))
  IN  With(Range(tokenize(full_text(paper))), Score)

\* a match_paper whose interest score is at least the largest confidence of
\* the concepts of the paper
match_paper_concepts(profile, paper, h, fp) ==
  LET concepts == dict_get(paper, "concepts", <<>>)
      conf == {dict_get(concepts[k], "score", Zero) : k \in 1..Len(concepts)}
      top == IF conf = {} THEN Zero
             ELSE CHOOSE x \in conf : \A y \in conf : RLeq(y, x)
      Rounded(r) ==
        [r EXCEPT !.relevance_score = round(r.relevance_score, 1, fp),
                  !.field_score = round(r.field_score, 2, fp),
                  !.interest_score = round(RMax(r.interest_score, top), 2, fp),
                  !.method_score = round(r.method_score, 2, fp),
                  !.region_score = round(r.region_score, 2, fp)]
  IN  With(unrounded_match(profile, paper, h), Rounded)

\* fp is the floating point behaviour of the platform: the exact decimal
\* halves that round() takes to the upper neighbour
match_paper(profile, paper, h, fp) ==
  LET Rounded(r) ==
        [r EXCEPT !.relevance_score = round(r.relevance_score, 1, fp),
                  !.field_score = round(r.field_score, 2, fp),
                  !.interest_score = round(r.interest_score, 2, fp),
                  !.method_score = round(r.method_score, 2, fp),
                  !.region_score = round(r.region_score, 2, fp)]
  IN  With(unrounded_match(profile, paper, h), Rounded)

\* enriched = {**paper, "relevance_score": ..., ..., "has_match_data": True}
enrich(paper, match_result) ==
  [relevance_score |-> match_result.relevance_score,
   field_score |-> match_result.field_score,
   interest_score |-> match_result.interest_score,
   method_score |-> match_result.method_score,
   region_score |-> match_result.region_score,
   author_match |-> match_result.author_match,
   topic_matches |-> match_result.matched_interests,
   method_matches |-> match_result.matched_methods,
   matched_keywords |-> match_result.matched_keywords,
   has_match_data |-> TRUE] @@ paper

\* list.sort(key=lambda x: x["relevance_score"], reverse=True): a stable
\* sort, records with equal keys keep their relative order
\* the sort without reverse=True
RECURSIVE sort_ascending(_)
sort_ascending(l) ==
  IF l = <<>> THEN <<>>
  ELSE
    LET n == Len(l)
        Insert(sorted, e) ==
          LET k == Cardinality({j \in 1..Len(sorted) :
                     RLeq(sorted[j].relevance_score, e.relevance_score)})
          IN  SubSeq(sorted, 1, k) \o <<e>>
                \o SubSeq(sorted, k + 1, Len(sorted))
    IN  With(sort_ascending(SubSeq(l, 1, n - 1)),
             LAMBDA sorted : Insert(sorted, l[n]))

\* a sort that breaks ties of the score by descending cited_by_count
RECURSIVE sort_by_relevance_then_citations(_)
sort_by_relevance_then_citations(l) ==
  IF l = <<>> THEN <<>>
  ELSE
    LET n == Len(l)
        NotBefore(a, e) ==
          \/ RLess(e.relevance_score, a.relevance_score)
          \/ /\ e.relevance_score = a.relevance_score
             /\ dict_get(e, "cited_by_count", 0)
                  <= dict_get(a, "cited_by_count", 0)
        Insert(sorted, e) ==
          LET k == Cardinality({j \in 1..Len(sorted) :
                                  NotBefore(sorted[j], e)})
          IN  SubSeq(sorted, 1, k) \o <<e>>
                \o SubSeq(sorted, k + 1, Len(sorted))
    IN  With(sort_by_relevance_then_citations(SubSeq(l, 1, n - 1)),
             LAMBDA sorted : Insert(sorted, l[n]))

\* a sort that is not stable: a record goes before the records of its score
RECURSIVE sort_unstable(_)
sort_unstable(l) ==
  IF l = <<>> THEN <<>>
  ELSE
    LET n == Len(l)
        Insert(sorted, e) ==
          LET k == Cardinality({j \in 1..Len(sorted) :
                     RLess(e.relevance_score, sorted[j].relevance_score)})
          IN  SubSeq(sorted, 1, k) \o <<e>>
                \o SubSeq(sorted, k + 1, Len(sorted))
    IN  With(sort_unstable(SubSeq(l, 1, n - 1)),
             LAMBDA sorted : Insert(sorted, l[n]))

RECURSIVE sort_by_relevance(_)
sort_by_relevance(l) ==
  IF l = <<>> THEN <<>>
  ELSE
    LET n == Len(l)
        \* e goes after every record whose key is not smaller than its own
        Insert(sorted, e) ==
          LET k == Cardinality({j \in 1..Len(sorted) :
                     RLeq(e.relevance_score, sorted[j].relevance_score)})
          IN  SubSeq(sorted, 1, k) \o <<e>>
                \o SubSeq(sorted, k + 1, Len(sorted))
    IN  With(sort_by_relevance(SubSeq(l, 1, n - 1)),
             LAMBDA sorted : Insert(sorted, l[n]))

\* a ranking that scores the first paper of the batch for every paper
rank_papers_first(profile, papers, h, fp) ==
  LET enriched_papers ==
        [i \in 1..Len(papers) |->
           enrich(papers[i], match_paper(profile, papers[1], h, fp))]
  IN  With(enriched_papers, sort_by_relevance)

\* a ranking that leaves out the records without title
rank_papers_titled(profile, papers, h, fp) ==
  LET titled == SelectSeq(papers, LAMBDA paper : "title" \in DOMAIN paper)
      enriched_papers ==
        [i \in 1..Len(titled) |->
           enrich(titled[i], match_paper(profile, titled[i], h, fp))]
  IN  With(enriched_papers, sort_by_relevance)

rank_papers(profile, papers, h, fp) ==
  LET enriched_papers ==
        [i \in 1..Len(papers) |->
           enrich(papers[i], match_paper(profile, papers[i], h, fp))]
  IN  With(enriched_papers, sort_by_relevance)

\* a ranking that updates the records of papers and sorts papers itself
papers_after_rank_in_place(profile, papers, h, fp) ==
  rank_papers(profile, papers, h, fp)

\* the caller's list papers and its records after rank_papers(papers):
\* rank_papers fills and sorts a list of its own with records of its own
\* ({**paper, ...}) and writes neither to papers nor to a record of it
papers_after_rank(profile, papers, h, fp) == papers

\* the caller's record after match_paper(paper), which only reads it
paper_after_match(profile, paper, h, fp) == paper

\* process_papers(user_profile, papers): (enriched_papers, messages)
process_papers(user_profile, papers, h, fp) ==
  IF papers = <<>>
  THEN [enriched_papers |-> <<>>,
        messages |-> <<[text |-> "No papers to process"]>>]
  ELSE
    LET Summary(enriched_papers) ==
          LET high_relevance ==
                Cardinality({j \in 1..Len(enriched_papers) :
                  RLeq(<<7, 1>>, enriched_papers[j].relevance_score)})
          IN  [enriched_papers |-> enriched_papers,
               messages |->
                 <<[text |-> "Analyzed papers", n |-> Len(papers)],
                   [text |-> "high-relevance matches found",
                    n |-> high_relevance]>>]
    IN  With(rank_papers(user_profile, papers, h, fp), Summary)

\* the caller's list after process_papers, which hands it to rank_papers
papers_after_process(user_profile, papers, h, fp) ==
  IF papers = <<>> THEN papers
  ELSE papers_after_rank(user_profile, papers, h, fp)

(***************************************************************************)
(* DATA CLASSES and PUBLIC API                                             *)
(***************************************************************************)
\* UserProfile.get_keywords: all keywords of the profile's resolvable labels
get_keywords(profile) ==
  dict_get(FIELD_KEYWORDS, profile.primary_field, {})
    \cup UNION {dict_get(INTEREST_KEYWORDS, l, {}) :
                  l \in Range(profile.secondary_interests)}
    \cup UNION {dict_get(METHOD_KEYWORDS, l, {}) :
                  l \in Range(profile.preferred_methodology)}
    \cup dict_get(REGION_KEYWORDS, profile.regional_focus, {})

create_user_profile(academic_level, primary_field, secondary_interests, preferred_methodology, regional_focus, seed_authors, methodological_lean) ==
  [academic_level |-> academic_level,
   primary_field |-> primary_field,
   secondary_interests |-> secondary_interests,
   preferred_methodology |-> preferred_methodology,
   regional_focus |-> regional_focus,
   seed_authors |-> seed_authors,
   methodological_lean |-> methodological_lean]

(***************************************************************************)
(* Inputs of the model                                                     *)
(***************************************************************************)
MaxPapers == 2
\* the largest number of distinct tokens of a paper of the single-paper pool
MaxTokens == 3

PaperKeys ==
  {"title", "abstract", "concepts", "authors", "journal_tier",
   "cited_by_count"}

Titles == {"", "Minimum Wage"}
Abstracts == {"", "We use difference-in-differences."}
ConceptLists == {<<>>, <<[name |-> "Causality", score |-> <<9, 10>>]>>}
AuthorLists == {<<>>, <<"David Card">>}
Tiers == {1, 3, 7}

PaperRecord(title, abstract, concepts, authors, journal_tier, cited_by_count) ==
  [title |-> title, abstract |-> abstract, concepts |-> concepts,
   authors |-> authors, journal_tier |-> journal_tier,
   cited_by_count |-> cited_by_count]

\* the record without the keys K
Without(paper, K) == [k \in (DOMAIN paper) \ K |-> paper[k]]

TokenSet(paper) == Range(tokenize(full_text(paper)))

WellFormedPapers ==
  {p \in {PaperRecord(t, a, c, au, jt, 0) :
            t \in Titles, a \in Abstracts, c \in ConceptLists,
            au \in AuthorLists, jt \in Tiers} :
     Cardinality(TokenSet(p)) <= MaxTokens}

\* a paper with every field set
RichPaper ==
  PaperRecord("Minimum Wage", "", 
              <<[name |-> "Causality", score |-> <<9, 10>>]>>,
              <<"David Card">>, 1, 12)

\* the same paper with some keys missing, or with a concept without name
MalformedPapers ==
  {Without(RichPaper, K) : K \in (SUBSET PaperKeys) \ {{}}}
    \cup {[RichPaper EXCEPT !.concepts = <<[score |-> <<9, 10>>]>>]}

Fields == {"Labor Economics", "Astrology"}
InterestLists ==
  {<<>>, <<"Causal Inference", "Natural Experiments">>,
   <<"Tarot", "Causal Inference">>}
MethodLists ==
  {<<>>, <<"Difference-in-Differences">>,
   <<"Dowsing", "Difference-in-Differences">>}
Regions == {"Global/Comparative", "Atlantis"}
SeedLists == {<<>>, <<"card">>}

Profiles ==
  {create_user_profile("PhD Student (Early)", f, i, m, r, s, <<1, 2>>) :
     f \in Fields, i \in InterestLists, m \in MethodLists, r \in Regions,
     s \in SeedLists}

\* a profile whose labels all resolve, with a seed author
RichProfile ==
  create_user_profile("PhD Student (Early)", "Labor Economics",
                      <<"Causal Inference", "Natural Experiments">>,
                      <<"Difference-in-Differences">>, "Global/Comparative",
                      <<"card">>, <<1, 2>>)

\* a profile with the single interest Natural Experiments
NEProfile ==
  create_user_profile("PhD Student (Early)", "Labor Economics",
                      <<"Natural Experiments">>, <<>>, "Global/Comparative",
                      <<>>, <<1, 2>>)

\* the papers of the batches: records as the retrieval step builds them, with
\* an id; W1, W2 and W3 get the same relevance score, W2 and W3 have the same
\* number of citations too; W5 has no field but its id
BatchPapers ==
  {[id |-> "W1"] @@ PaperRecord("Coral", "", <<>>, <<"David Card">>, 4, 0),
   [id |-> "W2"] @@ PaperRecord("Coral", "", <<>>, <<"David Card">>, 4, 5),
   [id |-> "W3"] @@ PaperRecord("Coral", "", <<>>, <<"David Card">>, 4, 5),
   [id |-> "W4"] @@ PaperRecord("Reef", "", <<>>, <<>>, 1, 9),
   [id |-> "W5"],
   [id |-> "W6"] @@ RichPaper}

RECURSIVE SeqsUpTo(_, _)
SeqsUpTo(S, n) ==
  IF n = 0 THEN {<<>>}
  ELSE LET shorter == SeqsUpTo(S, n - 1)
       IN  shorter \cup {Append(l, x) : l \in shorter, x \in S}

\* the paper with one more concept, of confidence 1.0
AddConcept(paper, name) ==
  [paper EXCEPT !.concepts = Append(@, [name |-> name, score |-> <<1, 1>>])]

ConceptBasePapers ==
  {PaperRecord("", a, <<>>, <<>>, jt, 0) :
     a \in {"", "A natural experiment."}, jt \in {1, 4}}
ConceptNames == {"exogenous shock", "causality"}

Perms(S) ==
  {p \in [1..Cardinality(S) -> S] :
     \A i, j \in 1..Cardinality(S) : i # j => p[i] # p[j]}

\* the words of a keyword
Words(keyword) == Range(str_split(keyword, "", <<>>))

\* the keywords of the profile's field whose words all occur in some paper:
\* the ones whose relative enumeration order shows in matched_keywords
ObservableKeywords(p, ps) ==
  {k \in dict_get(FIELD_KEYWORDS, p.primary_field, {}) :
     \E i \in 1..Len(ps) : Words(k) \subseteq TokenSet(ps[i])}

\* the enumeration orders a process can have for the sets the engine
\* enumerates while scoring the papers ps for the profile p
HashOrders(p, ps) ==
  LET TS == {TokenSet(ps[i]) : i \in 1..Len(ps)}
      AllPerms == UNION {Perms(S) : S \in TS}
  IN  {[tok |-> t, kw |-> k] :
         t \in {f \in [TS -> AllPerms] : \A S \in TS : f[S] \in Perms(S)},
         k \in Perms(ObservableKeywords(p, ps))}

\* the unrounded scores of the papers ps that are exact decimal halves
RoundingTies(p, ps, h) ==
  UNION {LET r == unrounded_match(p, ps[i], h)
         IN  {x \in {r.relevance_score} : IsTie(x, 1)}
               \cup {x \in {r.field_score, r.interest_score, r.method_score,
                             r.region_score} : IsTie(x, 2)} :
           i \in 1..Len(ps)}

\* the profile of the two worked examples
ScenarioProfile ==
  create_user_profile("PhD Student (Early)", "Labor Economics",
                      <<"Causal Inference">>, <<"Difference-in-Differences">>,
                      "Global/Comparative", <<>>, <<1, 2>>)

\* the paper of the matching example
MinimumWagePaper ==
  PaperRecord("The Effect of Minimum Wage on Employment: A Difference-in-Differences Approach",
              "We test the parallel trends assumption for the treatment group.",
              <<[name |-> "causal inference", score |-> <<9, 10>>]>>,
              <<>>, 1, 120)

\* the paper of the example without match
CoralReefPaper ==
  PaperRecord("Coral Reef Biodiversity in the Pacific", "", <<>>, <<>>, 4, 0)

\* a paper with three keywords of Causal Inference
SaturatedPaper ==
  PaperRecord("Causality, identification and endogeneity", "", <<>>, <<>>, 4, 0)

ScenarioPapers == {MinimumWagePaper, CoralReefPaper, SaturatedPaper}

\* the profile of the examples with its interest and its method listed twice
RepeatProfile ==
  create_user_profile("PhD Student (Early)", "Labor Economics",
                      <<"Causal Inference", "Causal Inference">>,
                      <<"Difference-in-Differences",
                        "Difference-in-Differences">>,
                      "Global/Comparative", <<>>, <<1, 2>>)

\* the first occurrences of the elements of a sequence
RECURSIVE Dedup(_)
Dedup(l) ==
  IF l = <<>> THEN <<>>
  ELSE LET n == Len(l)
       IN  With(Dedup(SubSeq(l, 1, n - 1)),
                LAMBDA d : IF l[n] \in Range(d) THEN d ELSE Append(d, l[n]))

Reverse(l) == [i \in 1..Len(l) |-> l[Len(l) + 1 - i]]

\* l with the elements at i and i + 1 exchanged
Transpose(l, i) ==
  [j \in 1..Len(l) |->
     IF j = i THEN l[i + 1] ELSE IF j = i + 1 THEN l[i] ELSE l[j]]

\* enumeration orders of the token set of a long paper: the order of the
\* text, that order reversed, and the order of the text with two neighbours
\* exchanged; every multi-word keyword of the text is whole in some of them
\* and cut in others, independently of the other ones
DocumentOrders(paper) ==
  With(Dedup(tokenize(full_text(paper))),
       LAMBDA d : {d, Reverse(d)} \cup {Transpose(d, i) : i \in 1..(Len(d) - 1)})

ScenarioHashOrders(p, paper) ==
  {[tok |-> (TokenSet(paper) :> o), kw |-> k] :
     o \in DocumentOrders(paper),
     k \in Perms(ObservableKeywords(p, <<paper>>))}

(***************************************************************************)
(* State                                                                   *)
(***************************************************************************)
VARIABLES
  profile,    \* SemanticMatcher.profile: the profile of the matcher
  papers,     \* the list of paper records handed to the engine
  hashOrder,  \* the set enumeration order of the running process
  fpTies,     \* the exact decimal halves the platform's round() rounds up
  results,    \* results[i]: the MatchResult of match_paper(papers[i])
  ranking,    \* the return value of rank_papers(papers), once called
  processed,  \* the return value of process_papers(profile, papers)
  request,    \* the running call of _make_request_with_retry
  fetch,      \* the running call of fetch_recent_papers
  session     \* st.session_state: the step and the form of the wizard

vars == <<profile, papers, hashOrder, fpTies, results, ranking, processed,
          request, fetch, session>>

NoResults == [i \in {} |-> 0]
NotRanked == [done |-> FALSE, papers |-> <<>>]

NotProcessed == [done |-> FALSE, enriched_papers |-> <<>>, messages |-> <<>>]

\* the value None of a name that holds a record otherwise
None == [none |-> TRUE]

\* no request to the API is running
NoRequest ==
  [pc |-> "idle", max_retries |-> 0, attempt |-> 0, last_error |-> "None",
   outcomes |-> <<>>, returned |-> None, raised |-> None]

\* fetch_recent_papers has not been called
NotFetching ==
  [pc |-> "idle", max_results |-> 0, per_page |-> 0, papers |-> <<>>,
   cursor |-> "*", page_num |-> 0, params |-> None, data |-> None,
   raised |-> None]

\* init_session_state(): the defaults of the session, of which the step, the
\* results and the fields of the form that the buttons of the wizard test
init_session_state ==
  [wizard_step |-> 1,
   processed_papers |-> <<>>,
   api_key |-> "",
   w_interests |-> <<"Causal Inference">>,
   w_methods |-> <<"Difference-in-Differences">>,
   w_journals |-> <<>>]

InitOutputs ==
  /\ results = NoResults
  /\ ranking = NotRanked
  /\ processed = NotProcessed
  /\ request = NoRequest
  /\ fetch = NotFetching
  /\ session = init_session_state

\* a paper without abstract and without concepts
NoText(paper) ==
  /\ dict_get(paper, "abstract", "") = ""
  /\ dict_get(paper, "concepts", <<>>) = <<>>

\* one paper and one profile: every paper for the rich profile, every profile
\* for the rich paper and for the well-formed papers without text
InitScore ==
  /\ \E q \in Profiles,
        p \in WellFormedPapers \cup MalformedPapers \cup {RichPaper} :
        /\ q = RichProfile \/ p = RichPaper
              \/ (p \in WellFormedPapers /\ NoText(p))
        /\ profile = q
        /\ papers = <<p>>
  /\ hashOrder \in HashOrders(profile, papers)
  /\ fpTies \in SUBSET RoundingTies(profile, papers, hashOrder)
  /\ InitOutputs

\* a batch of papers to rank
InitRank ==
  /\ profile = RichProfile
  /\ papers \in SeqsUpTo(BatchPapers, MaxPapers)
  /\ hashOrder \in HashOrders(profile, papers)
  /\ fpTies \in SUBSET RoundingTies(profile, papers, hashOrder)
  /\ InitOutputs

\* a paper, and the same paper with one more concept
InitConcept ==
  /\ profile \in {RichProfile, NEProfile}
  /\ \E p \in ConceptBasePapers, c \in ConceptNames :
        papers = <<p, AddConcept(p, c)>>
  /\ hashOrder \in HashOrders(profile, papers)
  /\ fpTies \in SUBSET RoundingTies(profile, papers, hashOrder)
  /\ InitOutputs

Init == InitScore \/ InitRank \/ InitConcept

\* one of the worked examples
InitScenario ==
  /\ profile \in {ScenarioProfile, RepeatProfile}
  /\ \E p \in ScenarioPapers :
        /\ papers = <<p>>
        /\ hashOrder \in ScenarioHashOrders(profile, p)
  /\ fpTies \in SUBSET RoundingTies(profile, papers, hashOrder)
  /\ InitOutputs

(***************************************************************************)
(* Operations                                                              *)
(***************************************************************************)
\* matcher.match_paper(papers[i])
MatchPaper(i) ==
  /\ i \in 1..Len(papers)
  /\ i \notin DOMAIN results
  /\ results' = (i :> match_paper(profile, papers[i], hashOrder, fpTies)) @@ results
  /\ papers' = [papers EXCEPT ![i] =
                  paper_after_match(profile, papers[i], hashOrder, fpTies)]
  /\ UNCHANGED <<profile, hashOrder, fpTies, ranking, processed, request, fetch,
                 session>>

\* matcher.rank_papers(papers)
RankPapers ==
  /\ ~ranking.done
  /\ ranking' = [done |-> TRUE,
                 papers |-> rank_papers(profile, papers, hashOrder, fpTies)]
  /\ papers' = papers_after_rank(profile, papers, hashOrder, fpTies)
  /\ UNCHANGED <<profile, hashOrder, fpTies, results, processed, request, fetch,
                 session>>

\* process_papers(profile, papers)
ProcessPapers ==
  /\ ~processed.done
  /\ processed' =
        [done |-> TRUE] @@ process_papers(profile, papers, hashOrder, fpTies)
  /\ papers' = papers_after_process(profile, papers, hashOrder, fpTies)
  /\ UNCHANGED <<profile, hashOrder, fpTies, results, ranking, request, fetch,
                 session>>

Next ==
  \/ \E i \in 1..MaxPapers : MatchPaper(i)
  \/ RankPapers

Spec == Init /\ [][Next]_vars

\* the engine on one paper and one profile
SpecScore == InitScore /\ [][Next]_vars

\* the engine on the worked examples
SpecScenario == InitScenario /\ [][Next]_vars

\* the three entry points of the engine on batches
NextEntry ==
  \/ \E i \in 1..MaxPapers : MatchPaper(i)
  \/ RankPapers
  \/ ProcessPapers

\* the papers of the batches given to the three entry points
EntryPapers == {p \in BatchPapers : p.id \in {"W1", "W5", "W6"}}

\* a batch of papers for the three entry points
InitEntry ==
  /\ profile = RichProfile
  /\ papers \in SeqsUpTo(EntryPapers, MaxPapers)
  /\ hashOrder \in HashOrders(profile, papers)
  /\ fpTies \in SUBSET RoundingTies(profile, papers, hashOrder)
  /\ InitOutputs

SpecEntry == InitEntry /\ [][NextEntry]_vars

\* seed authors of a profile and authors of a paper: names in several cases,
\* short and long forms of a name, an empty name
SeedAuthorLists ==
  {<<>>, <<"card">>, <<"Professor David Card">>, <<"Esther Duflo", "CARD">>,
   <<"Krueger">>, <<"">>}
PaperAuthorLists ==
  {<<>>, <<"David Card">>, <<"Alan Krueger", "DAVID CARD">>, <<"Card">>,
   <<"Joshua Angrist">>}

\* one paper and one profile, for every pair of seed authors and authors
InitAuthors ==
  /\ \E seeds \in SeedAuthorLists, authors \in PaperAuthorLists :
        /\ profile =
              create_user_profile("PhD Student (Early)", "Labor Economics",
                                  <<"Causal Inference">>, <<>>,
                                  "Global/Comparative", seeds, <<1, 2>>)
        /\ papers \in {<<[RichPaper EXCEPT !.authors = authors]>>,
                        <<Without(RichPaper, {"authors"})>>}
  /\ hashOrder \in HashOrders(profile, papers)
  /\ fpTies \in SUBSET RoundingTies(profile, papers, hashOrder)
  /\ InitOutputs

\* the engine on the pairs of seed authors and authors
SpecAuthors == InitAuthors /\ [][Next]_vars

\* titles with keywords of the taxonomy that are short words or stopwords, or
\* have one, and a title with keywords that are neither
KeywordTitles ==
  {"IV estimates for the US", "Intent to treat in the UK", "DiD evidence",
   "Event study for the EU", "Instrument for the USA"}
KeywordMethodLists ==
  {<<"Instrumental Variables">>,
   <<"Randomized Controlled Trials", "Difference-in-Differences">>}
KeywordRegions == {"United States", "United Kingdom", "European Union"}

\* one paper with one of the titles and one profile
InitKeywords ==
  /\ \E m \in KeywordMethodLists, r \in KeywordRegions, t \in KeywordTitles :
        /\ profile =
              create_user_profile("PhD Student (Early)", "Labor Economics",
                                  <<>>, m, r, <<>>, <<1, 2>>)
        /\ papers = <<PaperRecord(t, "", <<>>, <<>>, 1, 0)>>
  /\ hashOrder \in HashOrders(profile, papers)
  /\ fpTies \in SUBSET RoundingTies(profile, papers, hashOrder)
  /\ InitOutputs

\* the engine on the titles with short keywords
SpecKeywords == InitKeywords /\ [][Next]_vars

(***************************************************************************)
(* The retrieval step: api_client.py                                       *)
(***************************************************************************)
\* the builtin min of two integers
min(a, b) == IF a <= b THEN a ELSE b

\* OpenAlexConfig.MAX_RETRIES
MAX_RETRIES == 3

\* the largest max_retries of a direct call of _make_request_with_retry
MaxRetries == 3
\* the largest max_results and per_page of a call of fetch_recent_papers
MaxResults == 2
MaxPerPage == 2
\* the largest number of records of a page of the API
MaxPageLen == 2
\* the largest number of pages the API serves
MaxPages == 2

\* the exceptions of the client: the base class and its subclasses
OpenAlexErrors == {"OpenAlexError", "RateLimitError", "NoResultsError"}

\* words of 49 and of 50 characters
Word49 == "aaaaaaaaaaaaaaaaaaaaaaaaaaaaaaaaaaaaaaaaaaaaaaaaa"
Word50 == "bbbbbbbbbbbbbbbbbbbbbbbbbbbbbbbbbbbbbbbbbbbbbbbbbb"

\* abstracts in the inverted index format of the API, a dict from word to
\* positions in insertion order: one of 100 characters whose words are not
\* in text order, and one of 99 characters
Index100 == <<<<Word50, <<1>>>>, <<Word49, <<0>>>>>>
Index99 == <<<<Word49, <<0, 1>>>>>>

\* raw records of the API: usable, with a short abstract, without title,
\* without abstract
RawPapers ==
  {[id |-> "https://openalex.org/W1", title |-> "T",
    abstract_inverted_index |-> Index100],
   [id |-> "https://openalex.org/W2", title |-> "T",
    abstract_inverted_index |-> Index99],
   [id |-> "https://openalex.org/W3", title |-> "",
    abstract_inverted_index |-> Index100],
   [id |-> "https://openalex.org/W4", title |-> "T",
    abstract_inverted_index |-> <<>>]}

\* the JSON bodies of the API: a page of records and the cursor of the next
\* page ("" when there is none)
Pages ==
  [results : SeqsUpTo(RawPapers, MaxPageLen), next_cursor : {"", "n"}]

\* the outcomes of one requests.get call
Outcomes ==
  [kind : {"Response"}, status_code : {200}, json : Pages]
    \cup [kind : {"Response"}, status_code : {404, 429, 500}, json : {None}]
    \cup [kind : {"Timeout", "RequestException"}, status_code : {0},
           json : {None}]

\* raise OpenAlexError(f"Failed after {max_retries} attempts: {last_error}")
FailedAfter(max_retries, last_error) ==
  [type |-> "OpenAlexError", message |-> "Failed after attempts",
   attempts |-> max_retries, last_error |-> last_error]

\* a retry loop that ends without raising
for_next_silent(req, last_error) ==
  IF req.attempt + 1 < req.max_retries
  THEN [req EXCEPT !.attempt = req.attempt + 1, !.last_error = last_error]
  ELSE [req EXCEPT !.pc = "returned", !.attempt = req.attempt + 1,
                   !.last_error = last_error]

\* the for loop of _make_request_with_retry goes to its next attempt, or
\* ends and the function raises
for_next(req, last_error) ==
  IF req.attempt + 1 < req.max_retries
  THEN [req EXCEPT !.attempt = req.attempt + 1, !.last_error = last_error]
  ELSE [req EXCEPT !.pc = "raised", !.attempt = req.attempt + 1,
                   !.last_error = last_error,
                   !.raised = FailedAfter(req.max_retries, last_error)]

\* the call _make_request_with_retry(url, params, max_retries), up to its
\* first requests.get
call_make_request(max_retries) ==
  IF 0 < max_retries
  THEN [NoRequest EXCEPT !.pc = "get", !.max_retries = max_retries]
  ELSE [NoRequest EXCEPT !.pc = "raised", !.max_retries = max_retries,
                         !.raised = FailedAfter(max_retries, "None")]

\* one attempt of _make_request_with_retry: the requests.get call has ended
\* with the outcome
attempt(req, outcome) ==
  LET sent == [req EXCEPT !.outcomes = Append(req.outcomes, outcome)]
  IN  CASE outcome.kind = "Timeout" -> for_next(sent, "Request timed out")
        [] outcome.kind = "RequestException" -> for_next(sent, "request error")
        [] outcome.status_code = 429 -> for_next(sent, sent.last_error)
        [] outcome.status_code >= 500 -> for_next(sent, "HTTP 5xx")
        [] outcome.status_code >= 400 ->
             [sent EXCEPT !.pc = "raised", !.last_error = "HTTP 4xx",
                          !.raised = [type |-> "OpenAlexError",
                                      message |-> "HTTP 4xx"]]
        [] OTHER -> [sent EXCEPT !.pc = "returned", !.returned = outcome.json]

\* the (pos, word) pairs of an inverted index, in the order of the loops
RECURSIVE word_positions(_)
word_positions(abstract_inverted_index) ==
  IF abstract_inverted_index = <<>> THEN <<>>
  ELSE LET item == Head(abstract_inverted_index)
       IN  [k \in 1..Len(item[2]) |-> <<item[2][k], item[1]>>]
             \o word_positions(Tail(abstract_inverted_index))

\* list.sort(key=lambda x: x[0]): a stable sort by position
RECURSIVE sort_by_position(_)
sort_by_position(l) ==
  IF l = <<>> THEN <<>>
  ELSE LET n == Len(l)
           sorted == sort_by_position(SubSeq(l, 1, n - 1))
           before == Cardinality({k \in 1..(n - 1) : sorted[k][1] <= l[n][1]})
       IN  SubSeq(sorted, 1, before) \o <<l[n]>>
             \o SubSeq(sorted, before + 1, n - 1)

\* reconstruct_abstract(abstract_inverted_index): the words in the order of
\* their positions, joined by spaces
reconstruct_abstract(abstract_inverted_index) ==
  IF abstract_inverted_index = <<>> THEN ""
  ELSE LET sorted == sort_by_position(word_positions(abstract_inverted_index))
       IN  str_join(" ", [k \in 1..Len(sorted) |-> sorted[k][2]])

\* str.replace("https://openalex.org/", "") of an id
strip_openalex(id) ==
  IF Len(id) >= 21 /\ SubSeq(id, 1, 21) = "https://openalex.org/"
  THEN SubSeq(id, 22, Len(id))
  ELSE id

\* a process_paper that keeps every record with a title and an abstract
process_paper_any_abstract(paper) ==
  LET abstract == reconstruct_abstract(paper.abstract_inverted_index)
  IN  IF paper.title = "" THEN None
      ELSE IF abstract = "" THEN None
      ELSE [id |-> strip_openalex(paper.id), title |-> paper.title,
            abstract |-> abstract]

\* process_paper(paper): the clean record, or None for a record without
\* title or with an abstract of less than 100 characters
process_paper(paper) ==
  LET abstract == reconstruct_abstract(paper.abstract_inverted_index)
  IN  IF paper.title = "" THEN None
      ELSE IF abstract = "" \/ Len(abstract) < 100 THEN None
      ELSE [id |-> strip_openalex(paper.id), title |-> paper.title,
            abstract |-> abstract]

\* a page loop that appends every usable record of the page
RECURSIVE append_processed_all(_, _, _)
append_processed_all(fetched, page, max_results) ==
  IF page = <<>> THEN fetched
  ELSE LET clean == process_paper(Head(page))
       IN  append_processed_all(IF clean = None THEN fetched
                                ELSE Append(fetched, clean),
                                Tail(page), max_results)

\* the loop of fetch_recent_papers over the records of a page
RECURSIVE append_processed(_, _, _)
append_processed(fetched, page, max_results) ==
  IF page = <<>> THEN fetched
  ELSE LET clean == process_paper(Head(page))
       IN  IF clean = None
           THEN append_processed(fetched, Tail(page), max_results)
           ELSE IF Len(fetched) + 1 >= max_results
                THEN Append(fetched, clean)
                ELSE append_processed(Append(fetched, clean), Tail(page),
                                      max_results)

\* the call fetch_recent_papers(per_page, max_results), up to its while loop
call_fetch(per_page, max_results) ==
  [NotFetching EXCEPT !.pc = "while", !.per_page = per_page,
                      !.max_results = max_results]

\* fetch_recent_papers after _make_request_with_retry has returned data
receive_page(f, data) ==
  IF data.results = <<>> THEN [f EXCEPT !.pc = "returned", !.data = data]
  ELSE LET got == [f EXCEPT !.papers = append_processed(f.papers, data.results,
                                                        f.max_results),
                            !.cursor = data.next_cursor,
                            !.data = data]
       IN  IF data.next_cursor = "" THEN [got EXCEPT !.pc = "returned"]
           ELSE [got EXCEPT !.pc = "while", !.page_num = f.page_num + 1]

\* the state of the engine while the retrieval step runs
EngineIdle ==
  /\ profile = RichProfile
  /\ papers = <<>>
  /\ hashOrder = CHOOSE h \in HashOrders(RichProfile, <<>>) : TRUE
  /\ fpTies = {}
  /\ results = NoResults
  /\ ranking = NotRanked
  /\ processed = NotProcessed
  /\ session = init_session_state

\* a direct call of _make_request_with_retry
InitRequest ==
  /\ EngineIdle
  /\ fetch = NotFetching
  /\ \E max_retries \in 0..MaxRetries : request = call_make_request(max_retries)

\* a call of fetch_recent_papers
InitFetch ==
  /\ EngineIdle
  /\ request = NoRequest
  /\ \E per_page \in 1..MaxPerPage, max_results \in 0..MaxResults :
        fetch = call_fetch(per_page, max_results)

\* requests.get(url, params, timeout) ends with an outcome
HttpGet(outcome) ==
  /\ request.pc = "get"
  /\ request' = attempt(request, outcome)
  /\ UNCHANGED <<profile, papers, hashOrder, fpTies, results, ranking,
                 processed, fetch, session>>

\* the head of the while loop of fetch_recent_papers: the next request, or
\* the return of the papers
FetchWhile ==
  /\ fetch.pc = "while"
  /\ IF Len(fetch.papers) < fetch.max_results
     THEN /\ fetch.page_num < MaxPages
          /\ fetch' = [fetch EXCEPT
                         !.pc = "request",
                         !.params =
                           [per_page |-> min(fetch.per_page,
                                             fetch.max_results - Len(fetch.papers)),
                            cursor |-> fetch.cursor],
                         \* the data of the page before is not read again
                         !.data = None]
          /\ request' = call_make_request(MAX_RETRIES)
     ELSE /\ fetch' = [fetch EXCEPT !.pc = "returned"]
          /\ request' = request
  /\ UNCHANGED <<profile, papers, hashOrder, fpTies, results, ranking,
                 processed, session>>

\* _make_request_with_retry has returned the data of a page
FetchPage ==
  /\ fetch.pc = "request"
  /\ request.pc = "returned"
  /\ fetch' = receive_page(fetch, request.returned)
  /\ request' = NoRequest
  /\ UNCHANGED <<profile, papers, hashOrder, fpTies, results, ranking,
                 processed, session>>

\* _make_request_with_retry has raised: except OpenAlexError: raise
FetchRaise ==
  /\ fetch.pc = "request"
  /\ request.pc = "raised"
  /\ fetch' = [fetch EXCEPT !.pc = "raised", !.raised = request.raised]
  /\ request' = NoRequest
  /\ UNCHANGED <<profile, papers, hashOrder, fpTies, results, ranking,
                 processed, session>>

NextRequest == \E outcome \in Outcomes : HttpGet(outcome)

\* a direct call of _make_request_with_retry; every requests.get call ends,
\* by its timeout at the latest
SpecRequest ==
  InitRequest /\ [][NextRequest]_vars /\ WF_vars(NextRequest)

NextFetch ==
  \/ \E outcome \in Outcomes : HttpGet(outcome)
  \/ FetchWhile
  \/ FetchPage
  \/ FetchRaise

\* a call of fetch_recent_papers
SpecFetch == InitFetch /\ [][NextFetch]_vars

(***************************************************************************)
(* The wizard: app.py.  A step of the model is one run of the script: the  *)
(* widgets of the step of the session return their values, at most one     *)
(* button returns True, and the run ends at the end of the script or at    *)
(* st.rerun().  A widget returns the choice of the user or its default:    *)
(* each of its options covers both.                                        *)
(***************************************************************************)
\* the values of the text input of the API key
ApiKeys == {"", "AIza"}

\* options["secondary_interests"] and options["methodologies"], the first two
InterestOptions == <<"Causal Inference", "Machine Learning/AI">>
MethodOptions == <<"Difference-in-Differences", "Regression Discontinuity">>

\* the journals of the two tables, a first tier journal and a field journal
\* of economics and a first tier journal of political science
ECONOMICS_JOURNALS ==
  <<[name |-> "American Economic Review", tier |-> 1],
    [name |-> "Journal of Labor Economics", tier |-> 2]>>
POLISCI_JOURNALS ==
  <<[name |-> "American Political Science Review", tier |-> 1]>>
ALL_JOURNALS == ECONOMICS_JOURNALS \o POLISCI_JOURNALS

Names(journals) == [k \in 1..Len(journals) |-> journals[k].name]
get_economics_journals == Names(ECONOMICS_JOURNALS)
get_polisci_journals == Names(POLISCI_JOURNALS)
get_all_journals == Names(ALL_JOURNALS)

get_journal_options ==
  [economics |->
     [top5 |-> Names(SelectSeq(ECONOMICS_JOURNALS, LAMBDA j : j.tier = 1))],
   polisci |->
     [top3 |-> Names(SelectSeq(POLISCI_JOURNALS, LAMBDA j : j.tier = 1))]]

\* list[:n]
Slice(l, n) == SubSeq(l, 1, min(n, Len(l)))

\* st.multiselect(options, default): the lists of options it can return, each
\* in the order of the options; the default is one of them
multiselect(options, default) ==
  {SelectSeq(options, LAMBDA x : x \in S) : S \in SUBSET Range(options)}

FieldChoices == {"Economics", "Political Science", "Both"}

\* the journals the multiselect of the third step offers and the top journals
\* of the choice of field
available_journals(field_choice) ==
  IF field_choice = "Economics" THEN get_economics_journals
  ELSE IF field_choice = "Political Science" THEN get_polisci_journals
  ELSE get_all_journals

top_journals(field_choice) ==
  IF field_choice = "Economics" THEN get_journal_options.economics.top5
  ELSE IF field_choice = "Political Science"
       THEN get_journal_options.polisci.top3
  ELSE Slice(get_journal_options.economics.top5, 3)
         \o Slice(get_journal_options.polisci.top3, 2)

\* the default of the multiselect of the third step
current_selection(s, field_choice) ==
  LET available == available_journals(field_choice)
      kept == SelectSeq(s.w_journals, LAMBDA j : j \in Range(available))
  IN  IF kept = <<>> THEN Slice(top_journals(field_choice), 3) ELSE kept

\* render_step_1_profile(): api_key is the value of the text input, clicked
\* the button that returns True
render_step_1_profile(s, api_key, clicked) ==
  LET s1 == [s EXCEPT !.api_key = api_key]
  IN  IF clicked = "Continue" /\ api_key # ""
      THEN [s1 EXCEPT !.wizard_step = 2]
      ELSE s1

render_step_2_interests(s, interests, methods, clicked) ==
  LET s1 == [s EXCEPT !.w_interests = interests, !.w_methods = methods]
  IN  IF clicked = "Back" THEN [s1 EXCEPT !.wizard_step = 1]
      ELSE IF clicked = "Continue"
           THEN IF interests = <<>> THEN s1
                ELSE IF methods = <<>> THEN s1
                ELSE [s1 EXCEPT !.wizard_step = 3]
      ELSE s1

\* a third step whose button Discover Papers does not test the journals
render_step_3_sources_unchecked(s, field_choice, journals, clicked) ==
  LET s1 == [s EXCEPT !.w_journals = journals]
  IN  IF clicked = "Select Top Journals"
      THEN [s EXCEPT !.w_journals = top_journals(field_choice)]
      ELSE IF clicked = "Select All"
      THEN [s EXCEPT !.w_journals = available_journals(field_choice)]
      ELSE IF clicked = "Back" THEN [s1 EXCEPT !.wizard_step = 2]
      ELSE IF clicked = "Discover Papers" THEN [s1 EXCEPT !.wizard_step = 4]
      ELSE s1

\* render_step_3_sources(): the two quick buttons end the run before the
\* multiselect is read
render_step_3_sources(s, field_choice, journals, clicked) ==
  LET s1 == [s EXCEPT !.w_journals = journals]
  IN  IF clicked = "Select Top Journals"
      THEN [s EXCEPT !.w_journals = top_journals(field_choice)]
      ELSE IF clicked = "Select All"
      THEN [s EXCEPT !.w_journals = available_journals(field_choice)]
      ELSE IF clicked = "Back" THEN [s1 EXCEPT !.wizard_step = 2]
      ELSE IF clicked = "Discover Papers"
           THEN IF journals = <<>> THEN s1
                ELSE [s1 EXCEPT !.wizard_step = 4]
      ELSE s1

\* what the pipeline of run_discovery comes to: no paper fetched, papers
\* processed, no paper left by the processing, an exception
Discoveries == {"no papers", "processed", "none processed", "error"}

\* run_discovery(): the session after it and whether it ended the run
run_discovery(s, discovery, clicked) ==
  IF discovery = "no papers"
  THEN IF clicked = "Adjust Settings"
       THEN [session |-> [s EXCEPT !.wizard_step = 3], ended |-> TRUE]
       ELSE [session |-> s, ended |-> FALSE]
  ELSE IF discovery = "processed"
  THEN [session |-> [s EXCEPT !.processed_papers = <<[id |-> "W1"]>>],
        ended |-> TRUE]
  ELSE IF discovery = "none processed"
  THEN [session |-> [s EXCEPT !.processed_papers = <<>>], ended |-> TRUE]
  ELSE [session |-> s, ended |-> FALSE]

render_results(s, clicked) ==
  IF s.processed_papers = <<>>
  THEN IF clicked = "Back to Settings"
       THEN [s EXCEPT !.wizard_step = 3, !.processed_papers = <<>>]
       ELSE s
  ELSE IF clicked = "New Search"
       THEN [s EXCEPT !.processed_papers = <<>>, !.wizard_step = 1]
       ELSE s

render_step_4_results(s, discovery, clicked) ==
  IF s.processed_papers = <<>>
  THEN LET d == run_discovery(s, discovery, clicked)
       IN  IF d.ended THEN d.session ELSE render_results(d.session, clicked)
  ELSE render_results(s, clicked)

\* the engine and the retrieval step at rest, the session as the script
\* initialises it
InitWizard ==
  /\ EngineIdle
  /\ request = NoRequest
  /\ fetch = NotFetching

WizardIdle ==
  UNCHANGED <<profile, papers, hashOrder, fpTies, results, ranking, processed,
              request, fetch>>

\* a run of the script at each step of the wizard
RunStep1 ==
  /\ session.wizard_step = 1
  /\ \E api_key \in ApiKeys, clicked \in {"", "Continue"} :
        session' = render_step_1_profile(session, api_key, clicked)
  /\ WizardIdle

RunStep2 ==
  /\ session.wizard_step = 2
  /\ \E interests \in multiselect(InterestOptions, session.w_interests),
        methods \in multiselect(MethodOptions, session.w_methods),
        clicked \in {"", "Back", "Continue"} :
        session' = render_step_2_interests(session, interests, methods, clicked)
  /\ WizardIdle

RunStep3 ==
  /\ session.wizard_step = 3
  /\ \E field_choice \in FieldChoices,
        clicked \in {"", "Select Top Journals", "Select All", "Back",
                     "Discover Papers"} :
        \E journals \in multiselect(available_journals(field_choice),
                                    current_selection(session, field_choice)) :
          session' = render_step_3_sources(session, field_choice, journals,
                                           clicked)
  /\ WizardIdle

RunStep4 ==
  /\ session.wizard_step = 4
  /\ \E discovery \in Discoveries,
        clicked \in {"", "Adjust Settings", "Back to Settings", "New Search"} :
        session' = render_step_4_results(session, discovery, clicked)
  /\ WizardIdle

\* main(): the step of the session is rendered
NextWizard ==
  \/ RunStep1
  \/ RunStep2
  \/ RunStep3
  \/ RunStep4

SpecWizard == InitWizard /\ [][NextWizard]_vars

(***************************************************************************)
(* Properties                                                              *)
(***************************************************************************)
\* the relevance scores of the results of match_paper and of rank_papers
Scores ==
  {results[i].relevance_score : i \in DOMAIN results}
    \cup {ranking.papers[j].relevance_score : j \in 1..Len(ranking.papers)}

\* C1: for every profile and every paper record, the relevance score that
\* match_paper returns, and that every entry of the output of rank_papers
\* carries, is at least 1.0 and at most 10.0
RelevanceInRange ==
  \A x \in Scores : RLeq(<<1, 1>>, x) /\ RLeq(x, <<10, 1>>)

\* a batch with a paper above the scale and a paper below it has been scored
\* and ranked: both ends of the clamp have acted
RelevanceClampedBothEnds ==
  /\ ranking.done
  /\ DOMAIN results = {1, 2}
  /\ \E j \in 1..2 :
        /\ results[j].relevance_score = <<10, 1>>
        /\ papers[j].journal_tier = 1
        /\ results[j].author_match
        /\ Len(results[j].matched_keywords) = 2
        /\ results[j].matched_interests # <<>>
  /\ \E j \in 1..2 :
        /\ results[j].relevance_score = <<1, 1>>
        /\ DOMAIN papers[j] = {"id"}

\* C2: rank_papers returns the papers in descending order of relevance
\* score: of two adjacent entries of the output, the earlier one's score
\* is at least the later one's
RankedDescending ==
  ranking.done =>
    \A j \in 1..(Len(ranking.papers) - 1) :
      RLeq(ranking.papers[j + 1].relevance_score,
           ranking.papers[j].relevance_score)

\* a batch given in ascending order of score has been ranked: the sort has
\* moved the second paper to the front
RankedReordered ==
  /\ ranking.done
  /\ DOMAIN results = {1, 2}
  /\ RLess(results[1].relevance_score, results[2].relevance_score)
  /\ ranking.papers[1].id = papers[2].id
  /\ ranking.papers[2].id = papers[1].id
  /\ papers[1].id # papers[2].id

\* the ways the output of rank_papers lines up with its input: place[i] is
\* the position in the output of the paper at position i of the input
Placements ==
  {place \in Perms(1..Len(papers)) :
     \A i \in 1..Len(papers) : \A k \in DOMAIN papers[i] :
       /\ k \in DOMAIN ranking.papers[place[i]]
       /\ ranking.papers[place[i]][k] = papers[i][k]}

CitedByCount(paper) == dict_get(paper, "cited_by_count", 0)

StableForEqualCitations ==
  ranking.done =>
    \E place \in Placements :
      \A i, j \in 1..Len(papers) :
        (/\ i < j
         /\ ranking.papers[place[i]].relevance_score
              = ranking.papers[place[j]].relevance_score
         /\ CitedByCount(papers[i]) = CitedByCount(papers[j]))
          => place[i] < place[j]

\* two distinct papers of the same score and the same cited_by_count have
\* been ranked and are in their input order
EqualPapersRanked ==
  /\ ranking.done
  /\ Len(papers) = 2
  /\ papers[1].id = "W3"
  /\ papers[2].id = "W2"
  /\ ranking.papers[1].id = "W3"
  /\ ranking.papers[2].id = "W2"
  /\ ranking.papers[1].relevance_score = ranking.papers[2].relevance_score
  /\ CitedByCount(papers[1]) = CitedByCount(papers[2])

\* the defaults of the fields of a paper record
Defaults ==
  [title |-> "", abstract |-> "", concepts |-> <<>>, authors |-> <<>>,
   journal_tier |-> 4]

ValidScore(x) == RLeq(<<1, 1>>, x) /\ RLeq(x, <<10, 1>>)

\* C5: a batch of N paper records yields N scored results, also when records
\* lack the title, the abstract, the concepts, the authors or the journal
\* tier: a missing field counts as the empty string, the empty sequence or
\* tier 4, and the paper gets a score of the scale
EveryPaperScored ==
  /\ \A i \in DOMAIN results :
        /\ results[i] = match_paper(profile, papers[i] @@ Defaults,
                                    hashOrder, fpTies)
        /\ ValidScore(results[i].relevance_score)
  /\ ranking.done =>
        /\ Len(ranking.papers) = Len(papers)
        /\ Placements # {}
        /\ \A j \in 1..Len(ranking.papers) :
              /\ ranking.papers[j].has_match_data
              /\ ValidScore(ranking.papers[j].relevance_score)

\* a batch of a record without title and a full record has been scored and
\* ranked
MalformedBatchScored ==
  /\ ranking.done
  /\ DOMAIN results = {1, 2}
  /\ Len(ranking.papers) = 2
  /\ \E i, j \in 1..2 :
        /\ PaperKeys \cap DOMAIN papers[i] = {}
        /\ PaperKeys \subseteq DOMAIN papers[j]

\* the labels that are keys of the taxonomy table
Known(labels, table) == SelectSeq(labels, LAMBDA l : l \in DOMAIN table)

\* the score that the known labels alone give to paper i, as a share of all
\* the labels of the profile
KnownShare(labels, table, i) ==
  IF labels = <<>> THEN Zero
  ELSE LET acc == accumulate_matches(Known(labels, table), table,
                                     TokenSet(papers[i]), hashOrder)
       IN  round(RMin(One, RMul(RDiv(acc.total_score, <<Len(labels), 1>>),
                                <<3, 2>>)), 2, fpTies)

\* C6: a primary field, an interest, a method or a region that is not a key
\* of the taxonomy raises no error, adds nothing to its sub-score and is
\* never among the matched interests or the matched methods
UnknownLabelsCountZero ==
  \A i \in DOMAIN results :
    /\ profile.primary_field \notin DOMAIN FIELD_KEYWORDS =>
          /\ results[i].field_score = Zero
          /\ results[i].matched_keywords = <<>>
    /\ profile.regional_focus \notin DOMAIN REGION_KEYWORDS =>
          results[i].region_score = Zero
    /\ Range(results[i].matched_interests) \subseteq DOMAIN INTEREST_KEYWORDS
    /\ Range(results[i].matched_methods) \subseteq DOMAIN METHOD_KEYWORDS
    /\ results[i].interest_score
          = KnownShare(profile.secondary_interests, INTEREST_KEYWORDS, i)
    /\ results[i].method_score
          = KnownShare(profile.preferred_methodology, METHOD_KEYWORDS, i)

\* a paper that matches words of the taxonomy has been scored for a profile
\* with an unknown field, an unknown region, an unknown interest next to a
\* matching one, and an unknown method
UnknownLabelsScored ==
  \E i \in DOMAIN results :
    /\ profile.primary_field \notin DOMAIN FIELD_KEYWORDS
    /\ profile.regional_focus \notin DOMAIN REGION_KEYWORDS
    /\ \E l \in Range(profile.secondary_interests) :
          l \notin DOMAIN INTEREST_KEYWORDS
    /\ \E l \in Range(profile.preferred_methodology) :
          l \notin DOMAIN METHOD_KEYWORDS
    /\ results[i].matched_interests # <<>>
    /\ RLess(Zero, results[i].interest_score)
    /\ "wage" \in TokenSet(papers[i])

\* the keys that rank_papers adds to a record
MatchKeys ==
  {"relevance_score", "field_score", "interest_score", "method_score",
   "region_score", "author_match", "topic_matches", "method_matches",
   "matched_keywords", "has_match_data"}

\* the input records of the entries of a ranking, in its order
InputOrder(ranked) ==
  [j \in 1..Len(ranked) |->
     [k \in (DOMAIN ranked[j]) \ MatchKeys |-> ranked[j][k]]]

\* C7: scoring is deterministic: match_paper gives the same result, in its
\* scores and in its matched interests, methods and keywords, each time it
\* is given the same profile and paper, and rank_papers the same order each
\* time it is given the same list, whatever the order in which the process
\* enumerates the token set and the keyword sets
Deterministic ==
  \A h \in HashOrders(profile, papers) :
    /\ \A i \in DOMAIN results :
          match_paper(profile, papers[i], h, fpTies) = results[i]
    /\ ranking.done =>
          InputOrder(rank_papers(profile, papers, h, fpTies))
            = InputOrder(ranking.papers)

\* the profile with its two interests in the other order
Swapped(p) ==
  [p EXCEPT !.secondary_interests = <<@[2], @[1]>>]

\* C8: for two distinct interests A and B and a paper that matches the
\* keywords of B only, the interest score for the profile with the interests
\* [B, A] is at least the one for the profile with the interests [A, B],
\* the rest of the profile being the same
EarlierInterestCountsNoLess ==
  \A i \in DOMAIN results :
    (/\ Len(profile.secondary_interests) = 2
     /\ profile.secondary_interests[1] # profile.secondary_interests[2]) =>
      LET other == match_paper(Swapped(profile), papers[i], hashOrder, fpTies)
      IN  /\ results[i].matched_interests = <<profile.secondary_interests[1]>>
                => RLeq(other.interest_score, results[i].interest_score)
          /\ results[i].matched_interests = <<profile.secondary_interests[2]>>
                => RLeq(results[i].interest_score, other.interest_score)

\* a paper has been scored that matches one of the two interests of the
\* profile, both of the taxonomy, and not the other
OneOfTwoInterestsMatched ==
  \E i \in DOMAIN results :
    /\ Len(profile.secondary_interests) = 2
    /\ Range(profile.secondary_interests) \subseteq DOMAIN INTEREST_KEYWORDS
    /\ results[i].matched_interests = <<profile.secondary_interests[1]>>
    /\ RLess(Zero, results[i].interest_score)
    /\ match_paper(Swapped(profile), papers[i], hashOrder,
                   fpTies).matched_interests
         = <<profile.secondary_interests[1]>>

\* C9, as claimed: a paper with an empty abstract and no concepts raises no
\* error and gets a relevance score below 3.5, for every profile, seed
\* authors included, and every title, author list and journal tier
NoTextScoresLow ==
  \A i \in DOMAIN results :
    NoText(papers[i]) => RLess(results[i].relevance_score, <<7, 2>>)

\* the result has no matched keyword, interest or method, no region score
\* and no seed author
NothingMatched(r) ==
  /\ r.matched_keywords = <<>>
  /\ r.matched_interests = <<>>
  /\ r.matched_methods = <<>>
  /\ r.region_score = Zero
  /\ ~r.author_match

\* C9, amended: a paper with an empty abstract and no concepts raises no
\* error and gets a relevance score below 3.5, for every profile and every
\* journal tier, when its title matches no keyword of the profile and none
\* of its authors is a seed author of the profile
NoTextNoMatchScoresLow ==
  \A i \in DOMAIN results :
    (NoText(papers[i]) /\ NothingMatched(results[i]))
      => RLess(results[i].relevance_score, <<7, 2>>)

\* a first tier paper with a title, no abstract and no concepts has been
\* scored for a profile with seed authors that it matches in nothing: it has
\* the score 3.0 of its tier
NoTextTopTierScored ==
  \E i \in DOMAIN results :
    /\ NoText(papers[i])
    /\ TokenSet(papers[i]) # {}
    /\ profile.seed_authors # <<>>
    /\ NothingMatched(results[i])
    /\ results[i].relevance_score = <<3, 1>>

\* the concept names that are a keyword of an interest of the profile
TargetConcepts ==
  {c \in ConceptNames :
     \E l \in Range(profile.secondary_interests) :
       str_lower(c) \in dict_get(INTEREST_KEYWORDS, l, {})}

\* C10: one more concept of confidence 1.0 whose name is that of a concept
\* of an interest of the profile never lowers the interest score of the
\* paper, nor its relevance score, the rest being the same
ConceptNeverLowers ==
  (/\ DOMAIN results = {1, 2}
   /\ "concepts" \in DOMAIN papers[1]
   /\ \E c \in TargetConcepts : papers[2] = AddConcept(papers[1], c))
    => /\ RLeq(results[1].interest_score, results[2].interest_score)
       /\ RLeq(results[1].relevance_score, results[2].relevance_score)

\* C11: for the profile Labor Economics / Causal Inference /
\* Difference-in-Differences, the first tier paper "The Effect of Minimum
\* Wage on Employment: A Difference-in-Differences Approach" whose abstract
\* has "parallel trends assumption" and "treatment group" and whose concept
\* is "causal inference" gets a relevance score of at least 8.0, the matched
\* methods [Difference-in-Differences] and the matched interests
\* [Causal Inference]
MinimumWageScenario ==
  \A i \in DOMAIN results :
    (profile = ScenarioProfile /\ papers[i] = MinimumWagePaper) =>
      /\ RLeq(<<8, 1>>, results[i].relevance_score)
      /\ results[i].matched_methods = <<"Difference-in-Differences">>
      /\ results[i].matched_interests = <<"Causal Inference">>

\* the paper of the matching example has been scored in a process that cuts
\* both "minimum wage" and "parallel trends": the lowest of its scores
MinimumWageScoredLowest ==
  /\ profile = ScenarioProfile
  /\ 1 \in DOMAIN results
  /\ papers[1] = MinimumWagePaper
  /\ results[1].matched_keywords \in {<<"wage", "employment">>,
                                       <<"employment", "wage">>}
  /\ results[1].method_score = <<1, 2>>
  /\ RLess(results[1].relevance_score, <<10, 1>>)

\* C12: for the same profile, the fourth tier paper "Coral Reef
\* Biodiversity in the Pacific", without concepts and without citations,
\* gets a relevance score below 3.5 and no matched method or interest
CoralReefScenario ==
  \A i \in DOMAIN results :
    (profile = ScenarioProfile /\ papers[i] = CoralReefPaper) =>
      /\ RLess(results[i].relevance_score, <<7, 2>>)
      /\ results[i].matched_methods = <<>>
      /\ results[i].matched_interests = <<>>

\* the paper of the example without match has been scored, its four tokens
\* compared with the keywords of the profile
CoralReefScored ==
  /\ profile = ScenarioProfile
  /\ 1 \in DOMAIN results
  /\ papers[1] = CoralReefPaper
  /\ Cardinality(TokenSet(papers[1])) = 4
  /\ results[1].relevance_score = <<1, 1>>

\* matched lists only labels of declared, in the order of declared, none
\* twice
OrderedSublist(matched, declared) ==
  /\ Range(matched) \subseteq Range(declared)
  /\ \A j, k \in 1..Len(matched) : j # k => matched[j] # matched[k]
  /\ \A j, k \in 1..Len(matched) :
        j < k => \E a, b \in 1..Len(declared) :
                   a < b /\ declared[a] = matched[j] /\ declared[b] = matched[k]

\* C13: the matched interests and the matched methods list only labels
\* that the profile declares, in the order of the profile, and no label
\* twice, also when the profile lists a label more than once
MatchedListsOrderedNoRepeats ==
  \A i \in DOMAIN results :
    /\ OrderedSublist(results[i].matched_interests,
                      profile.secondary_interests)
    /\ OrderedSublist(results[i].matched_methods,
                      profile.preferred_methodology)

\* the sub-scores of the results of match_paper and of rank_papers
SubScores ==
  UNION {{results[i].field_score, results[i].interest_score,
          results[i].method_score, results[i].region_score} :
           i \in DOMAIN results}
    \cup UNION {{ranking.papers[j].field_score,
                 ranking.papers[j].interest_score,
                 ranking.papers[j].method_score,
                 ranking.papers[j].region_score} :
                  j \in 1..Len(ranking.papers)}

\* C14: the field score, the interest score, the method score and the
\* region score of every result are at least 0 and at most 1
SubScoresInUnitRange ==
  \A x \in SubScores : RLeq(Zero, x) /\ RLeq(x, One)

\* a paper with three of the keywords of the only interest of the profile
\* has been scored and ranked: its interest score is capped at 1
InterestScoreCapped ==
  /\ ranking.done
  /\ 1 \in DOMAIN results
  /\ profile = ScenarioProfile
  /\ papers[1] = SaturatedPaper
  /\ results[1].interest_score = One
  /\ ranking.papers[1].interest_score = One

\* the records of ranked are, in some order, the records of papers, each
\* with the match fields added
ExtendsInputs(ranked) ==
  /\ Len(ranked) = Len(papers)
  /\ \E place \in Perms(1..Len(papers)) :
        \A i \in 1..Len(papers) :
          /\ DOMAIN ranked[place[i]] = DOMAIN papers[i] \cup MatchKeys
          /\ \A k \in DOMAIN papers[i] : ranked[place[i]][k] = papers[i][k]

MatchData(ranked_paper) == [k \in MatchKeys |-> ranked_paper[k]]

\* the match fields that rank_papers gives to a MatchResult
NoPaper == [k \in {} |-> 0]
AsMatchData(match_result) == MatchData(enrich(NoPaper, match_result))

\* C16: the score and the match fields of a paper do not depend on the
\* batch: for one profile a paper gets the same result whichever other
\* papers are in the list given to rank_papers, whatever its position in
\* the list and however many papers the matcher has scored before
BatchIndependent ==
  ranking.done =>
    \E place \in Placements :
      \A i \in 1..Len(papers) :
        /\ ranking.papers[place[i]]
             = rank_papers(profile, <<papers[i]>>, hashOrder, fpTies)[1]
        /\ i \in DOMAIN results =>
              MatchData(ranking.papers[place[i]]) = AsMatchData(results[i])

\* two papers of different scores have been ranked in one batch, the
\* second one scored by itself after the first one
BatchOfTwoRanked ==
  /\ ranking.done
  /\ DOMAIN results = {1, 2}
  /\ papers[1].id # papers[2].id
  /\ results[1].relevance_score # results[2].relevance_score
  /\ results[1].matched_keywords # results[2].matched_keywords

AcademicLevels == {"PhD Student (Early)", "Full Professor"}
Leans == {<<0, 1>>, <<1, 2>>, <<1, 1>>}

\* the profiles that differ from the profile of the state in the academic
\* level and the methodological lean at most
InformationalVariants ==
  {[profile EXCEPT !.academic_level = lvl, !.methodological_lean = lean] :
     lvl \in AcademicLevels, lean \in Leans}

\* C17: the academic level and the methodological lean of the profile do
\* not affect the scoring: profiles that differ in these two fields only
\* give every paper the same scores, author match and matched lists, and
\* rank every list of papers the same way
InformationalFieldsIgnored ==
  \A q \in InformationalVariants :
    /\ \A i \in DOMAIN results :
          match_paper(q, papers[i], hashOrder, fpTies) = results[i]
    /\ ranking.done =>
          rank_papers(q, papers, hashOrder, fpTies) = ranking.papers
    /\ get_keywords(q) = get_keywords(profile)

\* a paper that matches a method of the profile has been scored and ranked
MethodMatchedAndRanked ==
  /\ ranking.done
  /\ \E i \in DOMAIN results :
        /\ results[i].matched_methods # <<>>
        /\ RLess(Zero, results[i].method_score)
        /\ results[i].matched_keywords # <<>>

\* C18: fetch_recent_papers never returns more than max_results papers,
\* whatever pages the API serves: pages of any size, any number of pages,
\* any mix of usable and dropped records
AtMostMaxResults ==
  fetch.pc \in {"while", "request", "returned"} =>
    Len(fetch.papers) <= fetch.max_results

\* the number of usable records of a page
Usable(page) ==
  Cardinality({k \in 1..Len(page) : process_paper(page[k]) # None})

\* a call has returned max_results papers after a second page that held
\* more usable records than the request asked for
ReturnedFullFromLargerPage ==
  /\ fetch.pc = "returned"
  /\ fetch.max_results = MaxResults
  /\ Len(fetch.papers) = fetch.max_results
  /\ fetch.page_num > 0
  /\ fetch.data # None
  /\ Usable(fetch.data.results) > fetch.params.per_page

\* the status codes of the outcomes of the call, 0 for no response
Statuses == [k \in 1..Len(request.outcomes) |-> request.outcomes[k].status_code]

\* the call has ended
Ended == request.pc \in {"returned", "raised"}

\* C19: _make_request_with_retry always terminates: for every sequence of
\* outcomes of the HTTP call it issues at most max_retries requests, and
\* then returns the JSON of a successful response or raises OpenAlexError;
\* it never returns without a successful response
RequestTerminates ==
  /\ [](Len(request.outcomes) <= request.max_retries)
  /\ [](request.pc = "returned" =>
          LET last == request.outcomes[Len(request.outcomes)]
          IN  /\ request.outcomes # <<>>
              /\ last.kind = "Response"
              /\ last.status_code < 400
              /\ last.status_code # 429
              /\ request.returned = last.json)
  /\ [](request.pc = "raised" =>
          /\ request.raised # None
          /\ request.raised.type \in OpenAlexErrors)
  /\ <>Ended

\* a call has raised after max_retries failed requests of several kinds
RaisedAfterRetries ==
  /\ request.pc = "raised"
  /\ request.max_retries = MaxRetries
  /\ Len(request.outcomes) = request.max_retries
  /\ Cardinality({request.outcomes[k].kind : k \in 1..Len(request.outcomes)}) > 1
  /\ request.raised.attempts = request.max_retries

\* C20: when the server answers HTTP 429 on every attempt until the retries
\* are exhausted, the request fails with RateLimitError
RateLimitRaisesRateLimitError ==
  (/\ Ended
   /\ request.max_retries > 0
   /\ Len(request.outcomes) = request.max_retries
   /\ \A k \in 1..Len(request.outcomes) : Statuses[k] = 429)
  => /\ request.pc = "raised"
     /\ request.raised.type = "RateLimitError"

\* the records of a page with a title and a reconstructed abstract of at
\* least 100 characters
UsableRaw(page) ==
  SelectSeq(page, LAMBDA raw :
    /\ raw.title # ""
    /\ Len(reconstruct_abstract(raw.abstract_inverted_index)) >= 100)

\* C21: every record that fetch_recent_papers returns has a non-empty title
\* and a reconstructed abstract of at least 100 characters; a raw record
\* without these is dropped: the records a page adds to the result are made
\* from the first usable raw records of the page, in order
UsableAbstracts ==
  /\ [](\A k \in 1..Len(fetch.papers) :
          /\ fetch.papers[k].title # ""
          /\ Len(fetch.papers[k].abstract) >= 100)
  /\ [][FetchPage =>
          \E n \in 0..Len(request.returned.results) :
            LET usable == UsableRaw(request.returned.results)
            IN  /\ n <= Len(usable)
                /\ Len(fetch'.papers) = Len(fetch.papers) + n
                /\ SubSeq(fetch'.papers, 1, Len(fetch.papers)) = fetch.papers
                /\ \A k \in 1..n :
                      LET got == fetch'.papers[Len(fetch.papers) + k]
                      IN  /\ got.title = usable[k].title
                          /\ got.abstract = reconstruct_abstract(
                                              usable[k].abstract_inverted_index)
                          /\ got.id = strip_openalex(usable[k].id)]_vars

\* a call has returned a usable record of a page that also held a record
\* with an abstract of less than 100 characters
ReturnedUsableAmongDropped ==
  /\ fetch.pc = "returned"
  /\ fetch.papers # <<>>
  /\ fetch.data # None
  /\ Len(fetch.data.results) > Len(UsableRaw(fetch.data.results))
  /\ UsableRaw(fetch.data.results) # <<>>
  /\ \E k \in 1..Len(fetch.data.results) :
        LET a == reconstruct_abstract(fetch.data.results[k].abstract_inverted_index)
        IN  a # "" /\ Len(a) < 100

\* the keyword clusters the engine matches for the profile: the one of the
\* field, of each interest, of each method and of the region
ClustersOf(p) ==
  {dict_get(FIELD_KEYWORDS, p.primary_field, {})}
    \cup {dict_get(INTEREST_KEYWORDS, x, {}) : x \in Range(p.secondary_interests)}
    \cup {dict_get(METHOD_KEYWORDS, x, {}) : x \in Range(p.preferred_methodology)}
    \cup {dict_get(REGION_KEYWORDS, p.regional_focus, {})}

\* the overlap of the scored paper i with a cluster, as the process sees it
Overlap(i, cluster) ==
  _keyword_overlap_score(TokenSet(papers[i]), cluster, hashOrder)

\* the number of matched terms of the overlap
Hits(overlap) == Cardinality(Range(overlap.matches))

\* C22 as stated: 0 hits give 0, 1 hit gives 0.6, 2 hits give 0.8, 3 or
\* more hits give 1.0, whatever the number of terms of the cluster
DiminishingReturns ==
  \A i \in DOMAIN results : \A cluster \in ClustersOf(profile) :
    LET overlap == Overlap(i, cluster)
    IN  overlap.score = CASE Hits(overlap) = 0 -> Zero
                          [] Hits(overlap) = 1 -> <<3, 5>>
                          [] Hits(overlap) = 2 -> <<4, 5>>
                          [] OTHER -> One

\* C22, amended: the score grows linearly with the number of distinct
\* matched terms up to 1.0: 0 hits give 0; for a cluster of at most 15
\* terms 1 hit gives 1/3, 2 hits give 2/3 and 3 or more hits give 1.0; for a
\* cluster of n > 15 terms k hits give min(1.0, 5k / n); matched terms are
\* listed once each, and the field score is this score rounded to 2 digits
LinearReturns ==
  \A i \in DOMAIN results : \A cluster \in ClustersOf(profile) :
    LET overlap == Overlap(i, cluster)
        k == Hits(overlap)
        n == Cardinality(cluster)
    IN  /\ Len(overlap.matches) = k
        /\ Range(overlap.matches) \subseteq cluster
        /\ k = 0 => overlap.score = Zero
        /\ (k > 0 /\ n <= 15) =>
              overlap.score = (IF k >= 3 THEN One ELSE Rat(k, 3))
        /\ (k > 0 /\ n > 15) =>
              overlap.score = (IF 5 * k >= n THEN One ELSE Rat(5 * k, n))
        /\ cluster = dict_get(FIELD_KEYWORDS, profile.primary_field, {}) =>
              results[i].field_score = round(overlap.score, 2, fpTies)

\* a paper has been scored that has one hit in a cluster, two hits in
\* another, three or more in a third and a hit in a cluster of more than 15
\* terms that does not reach 1.0
OneTwoAndLargeClusterHits ==
  \E i \in DOMAIN results :
    /\ \E cluster \in ClustersOf(profile) : Hits(Overlap(i, cluster)) = 1
    /\ \E cluster \in ClustersOf(profile) : Hits(Overlap(i, cluster)) = 2
    /\ \E cluster \in ClustersOf(profile) : Hits(Overlap(i, cluster)) >= 3
    /\ \E cluster \in ClustersOf(profile) :
          /\ Cardinality(cluster) > 15
          /\ Hits(Overlap(i, cluster)) > 0
          /\ Overlap(i, cluster).score # One

\* the normalized, unsplit lowercase text of a paper: lowercase, punctuation
\* replaced by spaces, runs of white space reduced to one space
NormalizedText(paper) ==
  str_join(" ", str_split(re_sub_punct(str_lower(full_text(paper))), "", <<>>))

\* C23: a keyword with a space is reported as matched exactly when the
\* phrase is a substring of the normalized, unsplit lowercase text of the
\* paper, and a keyword of one word exactly when it is in the token set of
\* the paper, whatever the order in which the token set is enumerated
PhraseMatchedIffInText ==
  \A i \in DOMAIN results : \A cluster \in ClustersOf(profile) :
    \A keyword \in cluster :
      (keyword \in Range(Overlap(i, cluster).matches))
        <=> IF str_contains(keyword, " ")
            THEN str_contains(NormalizedText(papers[i]), keyword)
            ELSE keyword \in TokenSet(papers[i])

\* the raw total of the scored paper i: the weighted sum of its unrounded
\* sub-scores plus the bonuses for the author match and the journal tier
RawTotal(i) ==
  LET r == unrounded_match(profile, papers[i], hashOrder)
      weighted ==
        RAdd(RAdd(RMul(<<30, 100>>, r.field_score),
                  RMul(<<35, 100>>, r.interest_score)),
             RAdd(RMul(<<25, 100>>, r.method_score),
                  RMul(<<10, 100>>, r.region_score)))
      author == IF r.author_match THEN <<1, 2>> ELSE Zero
      tier == dict_get(papers[i], "journal_tier", 4)
      journal == CASE tier = 1 -> <<3, 10>> [] tier = 2 -> <<3, 20>>
                   [] tier = 3 -> <<1, 20>> [] OTHER -> Zero
  IN  RAdd(weighted, RAdd(author, journal))

\* C24 as stated: the relevance score is the piecewise-linear calibration of
\* the raw total, rounded to one digit: 0.10 yields 3.5 and 0.45 yields 8.0
CalibratedRelevance ==
  \A i \in DOMAIN results :
    results[i].relevance_score
      = round(normalize_calibrated(RawTotal(i)), 1, fpTies)

\* C24, amended: the relevance score is 10 times the raw total, clamped to
\* [1.0, 10.0] and rounded to one digit: a raw total of 0.10 or less yields
\* 1.0, 0.45 yields 4.5, and 1.0 or more yields 10.0
LinearRelevance ==
  \A i \in DOMAIN results :
    LET raw == RawTotal(i)
        scaled == <<10 * raw[1], raw[2]>>
    IN  results[i].relevance_score
          = IF RLeq(raw, <<1, 10>>) THEN One
            ELSE IF RLeq(One, raw) THEN <<10, 1>>
            ELSE round(Rat(scaled[1], scaled[2]), 1, fpTies)

\* a paper with a raw total of at least 0.45 and less than 0.8 has been
\* scored less than 8.0
HighRawScoredBelowEight ==
  \E i \in DOMAIN results :
    /\ RLeq(<<9, 20>>, RawTotal(i))
    /\ RLess(RawTotal(i), <<4, 5>>)
    /\ RLess(results[i].relevance_score, <<8, 1>>)
    /\ RLess(<<9, 2>>, results[i].relevance_score)

\* the keyword score of the scored paper i for the k-th interest of the
\* profile
InterestOverlap(i, k) ==
  Overlap(i, dict_get(INTEREST_KEYWORDS, profile.secondary_interests[k], {})).score

RECURSIVE RSum(_, _)
RSum(f, n) == IF n = 0 THEN Zero ELSE RAdd(RSum(f, n - 1), f[n])

RECURSIVE RMaxOf(_, _)
RMaxOf(f, n) == IF n = 0 THEN Zero ELSE RMax(RMaxOf(f, n - 1), f[n])

TargetStrings ==
  UNION {dict_get(INTEREST_KEYWORDS, l, {}) :
           l \in Range(profile.secondary_interests)}

\* the concept score of the scored paper i: the confidences of its concepts
\* whose lowercase name contains or is contained in a target string, summed
\* and divided by 1.2, at most 1.0
ConceptScore(i) ==
  LET concepts == dict_get(papers[i], "concepts", <<>>)
      Hit(c) == LET name == str_lower(dict_get(c, "name", ""))
                IN  /\ name # ""
                    /\ \E t \in TargetStrings :
                          str_contains(name, t) \/ str_contains(t, name)
      conf == [k \in 1..Len(concepts) |->
                 IF Hit(concepts[k]) THEN dict_get(concepts[k], "score", Zero)
                 ELSE Zero]
  IN  RMin(One, RDiv(RSum(conf, Len(concepts)), <<6, 5>>))

\* C26 as stated: the interest score of a paper is at least its concept
\* score, min(1.0, sum / 1.2) over the matching concepts, which is 0 for a
\* paper without concepts
InterestAtLeastConceptScore ==
  \A i \in DOMAIN results :
    /\ dict_get(papers[i], "concepts", <<>>) = <<>> => ConceptScore(i) = Zero
    /\ RLeq(round(ConceptScore(i), 2, fpTies), results[i].interest_score)

\* the paper with the confidence of each of its concepts set to conf
WithConfidence(paper, conf) ==
  IF "concepts" \in DOMAIN paper
  THEN [paper EXCEPT !.concepts =
          [k \in 1..Len(@) |-> ("score" :> conf) @@ @[k]]]
  ELSE paper

\* the paper without concepts, the names of its concepts added to its
\* abstract
ConceptsAsText(paper) ==
  LET concepts == dict_get(paper, "concepts", <<>>)
      names == str_join(" ", [k \in 1..Len(concepts) |->
                                dict_get(concepts[k], "name", "")])
  IN  ("concepts" :> <<>>)
        @@ ("abstract" :> (dict_get(paper, "abstract", "") \o " " \o names))
        @@ paper

\* C26, amended: the concepts of a paper enter its scores through their
\* names only, as text: a paper is scored as the same paper without concepts
\* whose abstract ends with the names of the concepts, and the confidences of
\* the concepts change no score and no matched list
ConceptsCountAsText ==
  \A i \in DOMAIN results :
    /\ \A conf \in {Zero, <<1, 2>>, One} :
          match_paper(profile, WithConfidence(papers[i], conf), hashOrder,
                      fpTies) = results[i]
    /\ match_paper(profile, ConceptsAsText(papers[i]), hashOrder, fpTies)
         = results[i]

\* a paper with a concept of an interest of the profile has been scored, and
\* its interest score is less than its concept score
ConceptScoredAsKeyword ==
  \E i \in DOMAIN results :
    /\ dict_get(papers[i], "concepts", <<>>) # <<>>
    /\ results[i].matched_interests # <<>>
    /\ RLess(Zero, results[i].interest_score)
    /\ RLess(results[i].interest_score, ConceptScore(i))

(***************************************************************************)
(* C27: the tokens of a text                                               *)
(***************************************************************************)
\* the tokens of the text of paper i
TokensOf(i) == tokenize(full_text(papers[i]))

\* the maximal runs of characters of the set cs in s, in the order of s
RunsOf(s, cs) ==
  LET In(a) == a \in 1..Len(s) /\ Char(s, a) \in cs
      starts == {a \in 1..Len(s) : In(a) /\ ~In(a - 1)}
      Start(k) == CHOOSE a \in starts :
                    Cardinality({x \in starts : x < a}) = k - 1
      End(a) == CHOOSE b \in a..Len(s) :
                  /\ \A j \in a..b : In(j)
                  /\ ~In(b + 1)
  IN  [k \in 1..Cardinality(starts) |->
         With(Start(k), LAMBDA a : SubSeq(s, a, End(a)))]

\* C27 as stated: every token is lowercase, longer than 2 characters, not a
\* stopword and free of hyphens
HyphenFreeTokens ==
  \A i \in DOMAIN results :
    \A t \in Range(TokensOf(i)) :
      /\ t = str_lower(t)
      /\ Len(t) > 2
      /\ t \notin STOPWORDS
      /\ ~str_contains(t, "-")

\* C27, amended: the tokens of a text are, in the order of the text, the
\* maximal runs of word characters and hyphens of the lowercased text that
\* are longer than 2 characters and are not stopwords: a hyphen is kept and
\* joins the words around it into one token, every other punctuation mark
\* separates tokens as white space does
HyphensKeptInTokens ==
  \A i \in DOMAIN results :
    /\ TokensOf(i) =
          SelectSeq(RunsOf(str_lower(full_text(papers[i])),
                           WordChars \cup {"-"}),
                    LAMBDA t : Len(t) > 2 /\ t \notin STOPWORDS)
    /\ \A t \in Range(TokensOf(i)) : t = str_lower(t)

\* a paper has been scored whose text has a hyphenated term, kept as one
\* token, a punctuation mark, capitals, a stopword and a short word
HyphenatedTermTokenized ==
  \E i \in DOMAIN results :
    LET text == full_text(papers[i])
    IN  /\ "difference-in-differences" \in Range(TokensOf(i))
        /\ "differences" \notin Range(TokensOf(i))
        /\ str_contains(text, "Difference-in-Differences")
        /\ str_contains(text, ": ")
        /\ str_contains(text, " of ")
        /\ str_contains(text, " on ")
        /\ Range(TokensOf(i)) \cap {"of", "on", "the"} = {}

(***************************************************************************)
(* C28: seed authors                                                       *)
(***************************************************************************)
\* the seed authors of the profile and the authors of paper i
SeedAuthors == Range(profile.seed_authors)
AuthorsOf(i) == Range(dict_get(papers[i], "authors", <<>>))

\* one of the two names is a part of the other, the case of the letters
\* left aside
SameAuthor(seed, author) ==
  LET a == str_lower(seed)
      b == str_lower(author)
  IN  \/ \E k \in 0..(Len(b) - Len(a)) : SubSeq(b, k + 1, k + Len(a)) = a
      \/ \E k \in 0..(Len(a) - Len(b)) : SubSeq(a, k + 1, k + Len(b)) = b

\* C28: author_match is true exactly when a seed author of the profile and
\* an author of the paper are such that, the case left aside, one name is a
\* substring of the other; it is false for a profile without seed authors
\* and for a paper without authors
AuthorMatchIffSubstring ==
  \A i \in DOMAIN results :
    /\ results[i].author_match <=>
          \E seed \in SeedAuthors : \E author \in AuthorsOf(i) :
            SameAuthor(seed, author)
    /\ (SeedAuthors = {} \/ AuthorsOf(i) = {}) => ~results[i].author_match

\* a paper has been scored whose author matches a longer seed author of the
\* profile through the case of the letters only
AuthorInsideSeedMatched ==
  \E i \in DOMAIN results :
    /\ results[i].author_match
    /\ \A seed \in SeedAuthors : \A author \in AuthorsOf(i) :
          /\ ~str_contains(author, seed)
          /\ ~str_contains(seed, author)
    /\ \E seed \in SeedAuthors : \E author \in AuthorsOf(i) :
          Len(author) < Len(seed) /\ SameAuthor(seed, author)

(***************************************************************************)
(* C29: keywords of the taxonomy that are short words or stopwords         *)
(***************************************************************************)
\* the words of a text: lowercase, cut at white space and at punctuation
\* but the hyphen
WordsOf(text) == RunsOf(str_lower(text), WordChars \cup {"-"})

\* the words of the keyword follow each other in the text
PhraseInText(kw, text) ==
  LET ws == WordsOf(text)
      ks == WordsOf(kw)
  IN  \E k \in 0..(Len(ws) - Len(ks)) : SubSeq(ws, k + 1, k + Len(ks)) = ks

\* a word of the keyword is 2 characters or shorter, or is a stopword
HasDroppedWord(kw) ==
  \E w \in Range(WordsOf(kw)) : Len(w) <= 2 \/ w \in STOPWORDS

\* C29: a keyword of the taxonomy that is a short word or a stopword, or has
\* one, is matched for a paper whose text contains it: the method of the
\* profile it belongs to is a matched method, and the region score is
\* positive when it is a keyword of the region of the profile
ShortKeywordsMatched ==
  \A i \in DOMAIN results :
    LET text == full_text(papers[i])
        InText(kws) == \E kw \in kws : HasDroppedWord(kw) /\ PhraseInText(kw, text)
    IN  /\ \A m \in Range(profile.preferred_methodology) :
              InText(dict_get(METHOD_KEYWORDS, m, {}))
                => m \in Range(results[i].matched_methods)
        /\ InText(dict_get(REGION_KEYWORDS, profile.regional_focus, {}))
              => RLess(Zero, results[i].region_score)

(***************************************************************************)
(* C30: the wizard                                                         *)
(***************************************************************************)
\* C30: whatever the buttons pressed and the fields edited, wizard_step is
\* 1, 2, 3 or 4, and at step 4 the API key is not empty and at least one
\* interest, one method and one journal are selected
ResultsStepHasInputs ==
  /\ session.wizard_step \in {1, 2, 3, 4}
  /\ session.wizard_step = 4 =>
        /\ session.api_key # ""
        /\ session.w_interests # <<>>
        /\ session.w_methods # <<>>
        /\ session.w_journals # <<>>

\* the results are shown for a form that was edited: other interests than
\* the default ones and every journal of both fields
ResultsShownAfterEdits ==
  /\ session.wizard_step = 4
  /\ session.processed_papers # <<>>
  /\ session.w_interests # init_session_state.w_interests
  /\ Len(session.w_journals) = Len(get_all_journals)

====
